---- MODULE Spec2Model ----
(***************************************************************************)
(* audiovis: the lock-free single-producer single-consumer sample ring     *)
(* buffer (include/audiovis/ring_buffer.hpp), its constructor, its         *)
(* operations run one at a time, and its operations run by a producer, a   *)
(* consumer and an observer thread whose atomic loads, slot accesses and   *)
(* stores interleave; the FFT processor (src/fft_processor.cpp), the       *)
(* spectrum analyzer (src/spectrum_analyzer.cpp) and the audio capture     *)
(* with its callback (src/audio_capture.cpp).                              *)
(***************************************************************************)
EXTENDS Integers, Naturals, Sequences, FiniteSets, TLC

\* ------------------------------------------------------------------ bounds
\* Width in bits of std::size_t in the model (64 in the build).
SizeBits == 7
\* Largest min_capacity a ring buffer is constructed with in the buffer runs.
MaxMinCapacity == 4
\* The sequential runs stop pushing once write_pos_ has reached this value.
MaxPos == 6
\* Longest span handed to a bulk operation.
MaxSpan == 2
SizeMod == 2 ^ SizeBits

\* Threads that construct and destroy PortAudioGuard objects, and the most
\* guards one thread constructs.
NumGuardThreads == 2
MaxGuards == 2
GuardThreads == 1 .. NumGuardThreads

\* ------------------------------------------------ std::size_t arithmetic
UAdd(a, b) == (a + b) % SizeMod
USub(a, b) == (a - b) % SizeMod

RECURSIVE Shr(_, _)
Shr(n, k) == IF k = 0 \/ n = 0 THEN n ELSE Shr(n \div 2, k - 1)

RECURSIVE BitOr(_, _)
BitOr(a, b) ==
    IF a = 0 THEN b
    ELSE IF b = 0 THEN a
    ELSE (IF a % 2 = 1 \/ b % 2 = 1 THEN 1 ELSE 0) + 2 * BitOr(a \div 2, b \div 2)

RECURSIVE BitAnd(_, _)
BitAnd(a, b) ==
    IF a = 0 \/ b = 0 THEN 0
    ELSE (IF a % 2 = 1 /\ b % 2 = 1 THEN 1 ELSE 0) + 2 * BitAnd(a \div 2, b \div 2)

Min(a, b) == IF a < b THEN a ELSE b

\* ------------------------------------------------------- float arithmetic
\* A float is kept as the exact fraction <<n, d>> in lowest terms with d > 0;
\* <<1, 0>> and <<-1, 0>> are the infinities and <<0, 0>> is NaN. Operations
\* follow IEEE 754 on these values without rounding; zero has no sign.
RECURSIVE Gcd(_, _)
Gcd(a, b) == IF b = 0 THEN a ELSE Gcd(b, a % b)
Abs(n) == IF n < 0 THEN -n ELSE n
Sign(n) == IF n < 0 THEN -1 ELSE IF n = 0 THEN 0 ELSE 1
\* The fraction n / d, d # 0, in lowest terms.
Frac(n, d) ==
    LET g == Gcd(Abs(n), Abs(d))
    IN  <<Sign(d) * (n \div g), Abs(d) \div g>>
\* static_cast<float>(k) of an integer k.
Flt(k) == <<k, 1>>
NaN == <<0, 0>>
IsNaN(a) == a = NaN
IsFinite(a) == a[2] # 0
FMul(a, b) ==
    IF a[2] = 0 \/ b[2] = 0 THEN <<Sign(a[1]) * Sign(b[1]), 0>>
    ELSE Frac(a[1] * b[1], a[2] * b[2])
FAdd(a, b) ==
    IF IsNaN(a) \/ IsNaN(b) THEN NaN
    ELSE IF a[2] = 0 /\ b[2] = 0 THEN (IF a = b THEN a ELSE NaN)
    ELSE IF a[2] = 0 THEN a
    ELSE IF b[2] = 0 THEN b
    ELSE Frac(a[1] * b[2] + b[1] * a[2], a[2] * b[2])
FNeg(a) == <<-a[1], a[2]>>
FSub(a, b) == FAdd(a, FNeg(b))
FDiv(a, b) ==
    IF IsNaN(b) THEN NaN
    ELSE IF b[2] = 0 THEN FMul(a, <<0, 1>>)
    ELSE IF b[1] = 0 THEN FMul(a, <<1, 0>>)
    ELSE FMul(a, <<Sign(b[1]) * b[2], Abs(b[1])>>)
\* a < b; false when either is NaN.
FLess(a, b) ==
    IF IsNaN(a) \/ IsNaN(b) THEN FALSE
    ELSE IF a[2] # 0 /\ b[2] # 0 THEN a[1] * b[2] < b[1] * a[2]
    ELSE IF a = b THEN FALSE
    ELSE a = <<-1, 0>> \/ b = <<1, 0>>
FLeq(a, b) == ~IsNaN(a) /\ ~IsNaN(b) /\ ~FLess(b, a)
\* std::max(a, b): returns a unless a < b.
FMax(a, b) == IF FLess(a, b) THEN b ELSE a
\* std::abs
FAbs(a) == <<Abs(a[1]), a[2]>>
\* std::clamp(v, lo, hi): lo if v < lo, hi if hi < v, else v.
FClamp(v, lo, hi) == IF FLess(v, lo) THEN lo ELSE IF FLess(hi, v) THEN hi ELSE v
\* std::sqrt, kept as the number under the root: the root is one-to-one on
\* [0, +inf], and NaN for NaN and for negative numbers.
FSqrt(a) == [radicand |-> IF IsNaN(a) \/ a[1] < 0 THEN NaN ELSE a]

\* ----------------------------------------------------------------- state
VARIABLES
    ctor,        \* "new" before the constructor has run, then "constructed"
    min_capacity,\* the constructor's argument
    capacity_, mask_, buffer_, write_pos_, read_pos_,   \* RingBuffer members
    assert_ok,   \* value of the constructor's assert condition
    pushed,      \* history: every value a push has published, in order
    popped,      \* history: every value a pop has returned, in order
    value,       \* the caller's variable handed to try_pop(T& out)
    last,        \* the last completed call: operation, arguments, results
    prod, cons, obs, \* the producer, consumer and observer threads
    done,        \* the stress test's std::atomic<bool> done
    occ,         \* history: per thread, the occupancies write_pos_ - read_pos_
                 \* the buffer has had during the thread's size() call
    fft_,        \* the FFTProcessor: outcome of construction, config_, window_,
                 \* the transform's input buffer
    audio_,      \* the AudioCapture: running_ and the statistics counters
    stream_,     \* the backend's stream: whether it is active, the calls made
    analyzer_config_,
    sample_buffer_, magnitude_buffer_,
    smoothed_magnitudes_, peak_values_,
    band_bins_,  \* SpectrumAnalyzer members
    result,      \* what the last FFT processor / analyzer / capture call returned
    guard_       \* PortAudioGuard::ref_count_, the backend library and the
                 \* threads that construct and destroy guards

rbVars == <<capacity_, mask_, buffer_, write_pos_, read_pos_>>
\* What no operation on a constructed object changes: the constructor's
\* record and the process-wide backend guard.
ctorVars == <<ctor, min_capacity, assert_ok, guard_>>
threadVars == <<prod, cons, obs, done, occ>>
analyzerVars == <<analyzer_config_, sample_buffer_, magnitude_buffer_,
                  smoothed_magnitudes_, peak_values_, band_bins_>>
appVars == <<fft_, audio_, stream_, analyzerVars, result>>
vars == <<ctor, min_capacity, capacity_, mask_, buffer_, write_pos_, read_pos_,
          assert_ok, pushed, popped, value, last, prod, cons, obs, done, occ,
          fft_, audio_, stream_, analyzer_config_, sample_buffer_, magnitude_buffer_,
          smoothed_magnitudes_, peak_values_, band_bins_, result, guard_>>

\* ----------------------------------------------------------- constructor
\* next_power_of_two with the `n |= n >> 2` line left out.
next_power_of_two_skip2(n) ==
    IF n = 0 THEN 1
    ELSE LET n0 == USub(n, 1)
             n1 == BitOr(n0, Shr(n0, 1))
             n3 == BitOr(n1, Shr(n1, 4))
             n4 == BitOr(n3, Shr(n3, 8))
             n5 == BitOr(n4, Shr(n4, 16))
             n6 == BitOr(n5, Shr(n5, 32))
         IN  UAdd(n6, 1)

next_power_of_two(n) ==
    IF n = 0 THEN 1
    ELSE LET n0 == USub(n, 1)
             n1 == BitOr(n0, Shr(n0, 1))
             n2 == BitOr(n1, Shr(n1, 2))
             n3 == BitOr(n2, Shr(n2, 4))
             n4 == BitOr(n3, Shr(n3, 8))
             n5 == BitOr(n4, Shr(n4, 16))
             n6 == BitOr(n5, Shr(n5, 32))
         IN  UAdd(n6, 1)

\* ------------------------------------- the objects before construction
WindowFunctions == {"Rectangular", "Hann", "Hamming", "Blackman", "FlatTop"}
\* FFTConfig{} : the defaults of the struct, with the model's transform size.
FFTConfig(fft_size, window, use_magnitude_db, db_floor, db_ceiling) ==
    [fft_size |-> fft_size, window |-> window, use_magnitude_db |-> use_magnitude_db,
     db_floor |-> db_floor, db_ceiling |-> db_ceiling]
\* No FFTProcessor yet. state becomes "constructed", or the exception that
\* left the constructor; plan is fftw_->plan != nullptr.
NoFFTProcessor ==
    [state |-> "none", config_ |-> FFTConfig(0, "Hann", TRUE, Flt(-80), Flt(0)),
     plan |-> FALSE, window_ |-> <<>>, input |-> <<>>]
\* No AudioCapture yet: running_{false} and the statistics at zero. pc is the
\* control thread's position inside start() or stop().
NoAudioCapture ==
    [state |-> "none", running_ |-> FALSE, sample_rate |-> 0, frames_captured_ |-> 0,
     overruns_ |-> 0, callback_count_ |-> 0, peak_amplitude_ |-> Flt(0),
     pc |-> "idle"]
\* The backend's stream: closed until Pa_OpenStream; then stopped or active.
\* starts and stops count the Pa_StartStream and Pa_StopStream calls made;
\* dropped counts the samples the callbacks could not push; in_callback says
\* that the audio thread is inside audio_callback; delivered_peak is the
\* largest |sample| of the batches handed to the callbacks whose steps are
\* followed one by one.
NoStream ==
    [state |-> "closed", starts |-> 0, stops |-> 0, dropped |-> 0,
     in_callback |-> FALSE, delivered_peak |-> <<0, 1>>]
AnalyzerConfig(num_bands, min_frequency, max_frequency, smoothing_factor, peak_decay_rate, logarithmic_frequency) ==
    [num_bands |-> num_bands, min_frequency |-> min_frequency,
     max_frequency |-> max_frequency, smoothing_factor |-> smoothing_factor,
     peak_decay_rate |-> peak_decay_rate,
     logarithmic_frequency |-> logarithmic_frequency]
\* SpectrumData{} and the results of the other calls: nothing returned yet.
\* pre is the state the call started in, where a property compares with it;
\* frame and changes count the update() and set_config calls made so far.
NoResult ==
    [op |-> "none", ret |-> 0, error |-> "none", arg |-> <<>>,
     freq |-> Flt(0), samples |-> <<>>, output |-> <<>>, in_range |-> TRUE,
     magnitudes |-> <<>>, peaks |-> <<>>,
     rms_level |-> FSqrt(Flt(0)), peak_level |-> Flt(0),
     starved |-> FALSE, frame |-> 0, changes |-> 0, pre |-> <<>>]

\* ref_count_{0}, the library not initialised, no guard constructed. inits and
\* terms count the Pa_Initialize calls that succeeded and the Pa_Terminate
\* calls; each thread has its position in a constructor or destructor, the
\* constructions it has begun and those that ended in the exception.
GuardThread == [pc |-> "none", begun |-> 0, failed |-> 0]
NoGuard ==
    [ref_count_ |-> 0, initialized |-> FALSE, inits |-> 0, terms |-> 0,
     th |-> [t \in GuardThreads |-> GuardThread]]

NoCall == [op |-> "none", val |-> 0, data |-> <<>>, ok |-> FALSE, n |-> 0,
           out |-> <<>>, after_peek |-> FALSE]
\* A thread between calls: no call in progress, locals cleared.
Idle == [pc |-> "idle", op |-> "none", w |-> 0, r |-> 0, i |-> 0, n |-> 0,
         v |-> 0, data |-> <<>>, out |-> <<>>, ok |-> FALSE, ret |-> 0, item |-> 0]
Threads == {"prod", "cons", "obs"}

\* The state before construction: no member has a value yet.
InitCommon ==
    /\ ctor = "new"
    /\ min_capacity = 0
    /\ capacity_ = 0 /\ mask_ = 0 /\ buffer_ = <<>>
    /\ write_pos_ = 0 /\ read_pos_ = 0
    /\ assert_ok = TRUE
    /\ pushed = <<>> /\ popped = <<>>
    /\ value = 0
    /\ last = NoCall
    /\ prod = Idle /\ cons = Idle /\ obs = Idle
    /\ done = FALSE
    /\ occ = [t \in Threads |-> {}]
    /\ fft_ = NoFFTProcessor
    /\ audio_ = NoAudioCapture
    /\ stream_ = NoStream
    /\ analyzer_config_ = AnalyzerConfig(0, Flt(0), Flt(0), Flt(0), Flt(0), TRUE)
    /\ sample_buffer_ = <<>> /\ magnitude_buffer_ = <<>>
    /\ smoothed_magnitudes_ = <<>> /\ peak_values_ = <<>>
    /\ band_bins_ = <<>>
    /\ result = NoResult
    /\ guard_ = NoGuard

\* RingBuffer(min_capacity): capacity_, mask_, a value-initialised array,
\* both counters zero, and the assert.
RingBuffer(n) ==
    /\ ctor = "new"
    /\ ctor' = "constructed"
    /\ min_capacity' = n
    /\ capacity_' = next_power_of_two(n)
    /\ mask_' = USub(capacity_', 1)
    /\ buffer_' = [j \in 0 .. capacity_' - 1 |-> 0]
    /\ write_pos_' = 0 /\ read_pos_' = 0
    /\ assert_ok' = (capacity_' > 0 /\ BitAnd(capacity_', mask_') = 0)
    /\ UNCHANGED <<pushed, popped, value, last, threadVars, appVars, guard_>>

\* ------------------------------------------------- shared code fragments
\* The members an operation reads and writes, as one value.
RB == [buffer |-> buffer_, write_pos |-> write_pos_, read_pos |-> read_pos_]

\* pos & mask_, with a mask one bit too short.
Slot_short(pos) == BitAnd(pos, Shr(mask_, 1))
\* pos & mask_
Slot(pos) == BitAnd(pos, mask_)

\* try_push(const T&): w - r >= capacity_
PushIsFull_gt(w, r) == USub(w, r) > capacity_
PushIsFull(w, r) == USub(w, r) >= capacity_

\* try_pop(T&): r >= w
PopIsEmpty_gt(r, w) == r > w
PopIsEmpty(r, w) == r >= w

\* try_push(span): min(capacity_ - (w - r), data.size())
PushCount_all(w, r, len) == len
PushCount(w, r, len) == Min(USub(capacity_, USub(w, r)), len)

\* try_pop(span), peek, discard: min(w - r, out.size())
PopCount(r, w, len) == Min(USub(w, r), len)

\* write_pos_.store(w + 1, release)
PushedPos_two(w) == UAdd(w, 2)
PushedPos(w) == UAdd(w, 1)

\* read_pos_.store(w, release) of clear()
ClearPos_zero(w) == 0
ClearPos(w) == w

\* push_overwrite: w + 1 - r > capacity_
Overrun_never(w, r) == FALSE
Overrun(w, r) == USub(UAdd(w, 1), r) > capacity_

\* for (i = 0; i < to_write; ++i) buffer_[(w + i) & mask_] = data[i];
RECURSIVE WriteLoop(_, _, _, _, _)
WriteLoop(buf, w, data, i, to_write) ==
    IF i < to_write
    THEN WriteLoop([buf EXCEPT ![Slot(UAdd(w, i))] = data[i + 1]], w, data, i + 1, to_write)
    ELSE buf

\* for (i = 0; i < to_read; ++i) out[i] = buffer_[(r + i) & mask_];
RECURSIVE ReadLoop(_, _, _, _, _)
ReadLoop(buf, r, out, i, to_read) ==
    IF i < to_read
    THEN ReadLoop(buf, r, [out EXCEPT ![i + 1] = buf[Slot(UAdd(r, i))]], i + 1, to_read)
    ELSE out

\* ------------------------------------- the operations, each as a whole
size_of(S) == USub(S.write_pos, S.read_pos)
size == size_of(RB)
available == USub(capacity_, size)
empty == size = 0
full == size = capacity_

try_push(S, v) ==
    LET w == S.write_pos
        r == S.read_pos
    IN  IF PushIsFull(w, r)
        THEN [S |-> S, ret |-> FALSE]
        ELSE [S |-> [S EXCEPT !.buffer[Slot(w)] = v, !.write_pos = PushedPos(w)],
              ret |-> TRUE]

try_push_span(S, data) ==
    LET w == S.write_pos
        r == S.read_pos
        to_write == PushCount(w, r, Len(data))
    IN  [S |-> [S EXCEPT !.buffer = WriteLoop(S.buffer, w, data, 0, to_write),
                         !.write_pos = UAdd(w, to_write)],
         ret |-> to_write]

push_overwrite(S, v) ==
    LET w == S.write_pos
        S1 == [S EXCEPT !.buffer[Slot(w)] = v, !.write_pos = UAdd(w, 1)]
        r == S1.read_pos
    IN  IF Overrun(w, r)
        THEN [S |-> [S1 EXCEPT !.read_pos = USub(UAdd(w, 1), capacity_)], dropped |-> TRUE]
        ELSE [S |-> S1, dropped |-> FALSE]

try_pop(S, out) ==
    LET r == S.read_pos
        w == S.write_pos
    IN  IF PopIsEmpty(r, w)
        THEN [S |-> S, ret |-> FALSE, out |-> out]
        ELSE [S |-> [S EXCEPT !.read_pos = UAdd(r, 1)], ret |-> TRUE,
              out |-> S.buffer[Slot(r)]]

try_pop_span(S, out) ==
    LET r == S.read_pos
        w == S.write_pos
        to_read == PopCount(r, w, Len(out))
    IN  [S |-> [S EXCEPT !.read_pos = UAdd(r, to_read)], ret |-> to_read,
         out |-> ReadLoop(S.buffer, r, out, 0, to_read)]

peek(S, out) ==
    LET r == S.read_pos
        w == S.write_pos
        to_copy == PopCount(r, w, Len(out))
    IN  [S |-> S, ret |-> to_copy, out |-> ReadLoop(S.buffer, r, out, 0, to_copy)]

\* discard that advances read_pos by count whatever is available.
discard_nomin(S, count) ==
    [S |-> [S EXCEPT !.read_pos = UAdd(S.read_pos, count)], ret |-> count]

discard(S, count) ==
    LET r == S.read_pos
        w == S.write_pos
        to_discard == PopCount(r, w, count)
    IN  [S |-> [S EXCEPT !.read_pos = UAdd(r, to_discard)], ret |-> to_discard]

clear(S) == [S |-> [S EXCEPT !.read_pos = ClearPos(S.write_pos)]]

\* --------------------------------- one call at a time (no concurrency)
Zeros(k) == [i \in 1 .. k |-> 0]

\* The producer's input is the stream of samples 1, 2, 3, ...: all distinct,
\* none equal to the 0 of a value-initialised slot. A sample that was not
\* accepted is offered again by the next push.
NextSample == Len(pushed) + 1
NextSpan(k) == [i \in 1 .. k |-> Len(pushed) + i]
Spans == {NextSpan(k) : k \in 0 .. MaxSpan}

SetRB(S) ==
    /\ buffer_' = S.buffer
    /\ write_pos_' = S.write_pos
    /\ read_pos_' = S.read_pos
    /\ UNCHANGED <<capacity_, mask_>>

Call(op, val, data, ok, n, out) ==
    [op |-> op, val |-> val, data |-> data, ok |-> ok, n |-> n, out |-> out,
     after_peek |-> (op = "discard" /\ last.op = "peek" /\ last.val = val)]

Construct == \E n \in 0 .. MaxMinCapacity : RingBuffer(n)

ConstructAny == \E n \in 0 .. SizeMod - 1 : RingBuffer(n)

TryPush ==
    \E v \in {NextSample} :
        /\ ctor = "constructed"
        /\ write_pos_ + 1 <= MaxPos
        /\ LET t == try_push(RB, v)
           IN  /\ SetRB(t.S)
               /\ pushed' = IF t.ret THEN Append(pushed, v) ELSE pushed
               /\ last' = Call("try_push", v, <<>>, t.ret, 0, <<>>)
        /\ UNCHANGED <<ctorVars, popped, value, threadVars, appVars>>

TryPushSpan ==
    \E data \in Spans :
        /\ ctor = "constructed"
        /\ write_pos_ + Len(data) <= MaxPos
        /\ LET t == try_push_span(RB, data)
           IN  /\ SetRB(t.S)
               /\ pushed' = pushed \o SubSeq(data, 1, t.ret)
               /\ last' = Call("try_push_span", 0, data, t.ret > 0, t.ret, <<>>)
        /\ UNCHANGED <<ctorVars, popped, value, threadVars, appVars>>

PushOverwrite ==
    \E v \in {NextSample} :
        /\ ctor = "constructed"
        /\ write_pos_ + 1 <= MaxPos
        /\ LET t == push_overwrite(RB, v)
           IN  /\ SetRB(t.S)
               /\ pushed' = Append(pushed, v)
               /\ last' = Call("push_overwrite", v, <<>>, t.dropped, 0, <<>>)
        /\ UNCHANGED <<ctorVars, popped, value, threadVars, appVars>>

TryPop ==
    /\ ctor = "constructed"
    /\ LET t == try_pop(RB, value)
       IN  /\ SetRB(t.S)
           /\ value' = t.out
           /\ popped' = IF t.ret THEN Append(popped, t.out) ELSE popped
           /\ last' = Call("try_pop", 0, <<>>, t.ret, 0, <<>>)
    /\ UNCHANGED <<ctorVars, pushed, threadVars, appVars>>

TryPopSpan ==
    \E k \in 0 .. MaxSpan :
        /\ ctor = "constructed"
        /\ LET t == try_pop_span(RB, Zeros(k))
           IN  /\ SetRB(t.S)
               /\ popped' = popped \o SubSeq(t.out, 1, t.ret)
               /\ last' = Call("try_pop_span", k, <<>>, t.ret > 0, t.ret, t.out)
        /\ UNCHANGED <<ctorVars, pushed, value, threadVars, appVars>>

Peek ==
    \E k \in 0 .. MaxSpan :
        /\ ctor = "constructed"
        /\ LET t == peek(RB, Zeros(k))
           IN  /\ SetRB(t.S)
               /\ last' = Call("peek", k, <<>>, t.ret > 0, t.ret, t.out)
        /\ UNCHANGED <<ctorVars, pushed, popped, value, threadVars, appVars>>

Discard ==
    \E k \in 0 .. MaxSpan :
        /\ ctor = "constructed"
        /\ LET t == discard(RB, k)
           IN  /\ SetRB(t.S)
               /\ last' = Call("discard", k, <<>>, t.ret > 0, t.ret, <<>>)
        /\ UNCHANGED <<ctorVars, pushed, popped, value, threadVars, appVars>>

Clear ==
    /\ ctor = "constructed"
    /\ SetRB(clear(RB).S)
    /\ last' = Call("clear", 0, <<>>, TRUE, 0, <<>>)
    /\ UNCHANGED <<ctorVars, pushed, popped, value, threadVars, appVars>>

\* The constructor over every argument a std::size_t can hold.
NextCap == ConstructAny
SpecCap == InitCommon /\ [][NextCap]_vars

\* try_push and try_pop, single and bulk.
NextFifo == Construct \/ TryPush \/ TryPushSpan \/ TryPop \/ TryPopSpan
SpecFifo == InitCommon /\ [][NextFifo]_vars

\* The producer also overwrites.
NextOverwrite == Construct \/ TryPush \/ TryPushSpan \/ PushOverwrite \/ TryPop \/ TryPopSpan
SpecOverwrite == InitCommon /\ [][NextOverwrite]_vars

\* Every operation.
Next ==
    \/ Construct \/ TryPush \/ TryPushSpan \/ PushOverwrite
    \/ TryPop \/ TryPopSpan \/ Peek \/ Discard \/ Clear
Spec == InitCommon /\ [][Next]_vars

\* ------------------------------------------ the operations, step by step
\* A call made by a thread is a sequence of steps, each one atomic load,
\* one slot access or one atomic store together with the local computation
\* that follows it. The steps of different threads interleave.

\* Maximum write_pos_ in the runs with threads.
MaxPosConc == 3

ThOf(t) == IF t = "prod" THEN prod ELSE IF t = "cons" THEN cons ELSE obs

\* The occupancies seen while a size() / available() call is between its
\* two loads; kept after the call returns, until the thread's next call.
NewOcc ==
    [t \in Threads |->
        IF ThOf(t)'.pc = "size_load_r"
        THEN (IF ThOf(t).pc = "size_load_r" THEN occ[t] ELSE {write_pos_ - read_pos_})
             \cup {write_pos_' - read_pos_'}
        ELSE IF ThOf(t)'.op \in {"size", "available"} THEN occ[t] ELSE {}]

\* A thread's locals when it enters a call.
Enter(th, op, pc) == [Idle EXCEPT !.op = op, !.pc = pc, !.item = th.item]
\* A thread's locals when a call returns to pc.
Return(th, pc) == [Idle EXCEPT !.op = th.op, !.pc = pc, !.item = th.item]

\* --- size() and available(), by any thread
SizeLoadW(th, op) == [Enter(th, op, "size_load_r") EXCEPT !.w = write_pos_]
SizeLoadR(th) ==
    [Return(th, "idle") EXCEPT
        !.ret = IF th.op = "size" THEN USub(th.w, read_pos_)
                ELSE USub(capacity_, USub(th.w, read_pos_))]

P_Size ==
    /\ ctor = "constructed"
    /\ \/ /\ prod.pc = "idle"
          /\ \E op \in {"size", "available"} : prod' = SizeLoadW(prod, op)
       \/ /\ prod.pc = "size_load_r"
          /\ prod' = SizeLoadR(prod)
    /\ UNCHANGED <<ctorVars, rbVars, pushed, popped, value, last, cons, obs, done, appVars>>
    /\ occ' = NewOcc

C_Size ==
    /\ ctor = "constructed"
    /\ \/ /\ cons.pc = "idle"
          /\ \E op \in {"size", "available"} : cons' = SizeLoadW(cons, op)
       \/ /\ cons.pc = "size_load_r"
          /\ cons' = SizeLoadR(cons)
    /\ UNCHANGED <<ctorVars, rbVars, pushed, popped, value, last, prod, obs, done, appVars>>
    /\ occ' = NewOcc

O_Size ==
    /\ ctor = "constructed"
    /\ \/ /\ obs.pc = "idle"
          /\ \E op \in {"size", "available"} : obs' = SizeLoadW(obs, op)
       \/ /\ obs.pc = "size_load_r"
          /\ obs' = SizeLoadR(obs)
    /\ UNCHANGED <<ctorVars, rbVars, pushed, popped, value, last, prod, cons, done, appVars>>
    /\ occ' = NewOcc

\* --- producer: try_push(const T&)
P_PushLoadW(v) ==
    /\ prod.pc = "idle"
    /\ prod' = [Enter(prod, "try_push", "push_load_r") EXCEPT !.v = v, !.w = write_pos_]
    /\ UNCHANGED <<ctorVars, rbVars, pushed, popped, value, last, cons, obs, done, appVars>>
    /\ occ' = NewOcc

P_PushLoadR ==
    /\ prod.pc = "push_load_r"
    /\ prod' = IF PushIsFull(prod.w, read_pos_)
               THEN [Return(prod, "idle") EXCEPT !.ok = FALSE]
               ELSE [prod EXCEPT !.r = read_pos_, !.pc = "push_write"]
    /\ UNCHANGED <<ctorVars, rbVars, pushed, popped, value, last, cons, obs, done, appVars>>
    /\ occ' = NewOcc

P_PushWrite ==
    /\ prod.pc = "push_write"
    /\ buffer_' = [buffer_ EXCEPT ![Slot(prod.w)] = prod.v]
    /\ prod' = [prod EXCEPT !.pc = "push_store"]
    /\ UNCHANGED <<ctorVars, capacity_, mask_, write_pos_, read_pos_, pushed, popped,
                   value, last, cons, obs, done, appVars>>
    /\ occ' = NewOcc

P_PushStore ==
    /\ prod.pc = "push_store"
    /\ write_pos_' = PushedPos(prod.w)
    /\ pushed' = Append(pushed, prod.v)
    /\ prod' = [Return(prod, "idle") EXCEPT !.ok = TRUE, !.item = prod.item + 1]
    /\ UNCHANGED <<ctorVars, capacity_, mask_, buffer_, read_pos_, popped, value, last,
                   cons, obs, done, appVars>>
    /\ occ' = NewOcc

\* --- producer: try_push(std::span<const T>)
P_SpanLoadW(data) ==
    /\ prod.pc = "idle"
    /\ prod' = [Enter(prod, "try_push_span", "pspan_load_r") EXCEPT
                    !.data = data, !.w = write_pos_]
    /\ UNCHANGED <<ctorVars, rbVars, pushed, popped, value, last, cons, obs, done, appVars>>
    /\ occ' = NewOcc

P_SpanLoadR ==
    /\ prod.pc = "pspan_load_r"
    /\ LET to_write == PushCount(prod.w, read_pos_, Len(prod.data))
       IN  prod' = [prod EXCEPT !.r = read_pos_, !.n = to_write, !.i = 0,
                        !.pc = IF 0 < to_write THEN "pspan_write" ELSE "pspan_store"]
    /\ UNCHANGED <<ctorVars, rbVars, pushed, popped, value, last, cons, obs, done, appVars>>
    /\ occ' = NewOcc

P_SpanWrite ==
    /\ prod.pc = "pspan_write"
    /\ buffer_' = [buffer_ EXCEPT ![Slot(UAdd(prod.w, prod.i))] = prod.data[prod.i + 1]]
    /\ prod' = [prod EXCEPT !.i = prod.i + 1,
                    !.pc = IF prod.i + 1 < prod.n THEN "pspan_write" ELSE "pspan_store"]
    /\ UNCHANGED <<ctorVars, capacity_, mask_, write_pos_, read_pos_, pushed, popped,
                   value, last, cons, obs, done, appVars>>
    /\ occ' = NewOcc

P_SpanStore ==
    /\ prod.pc = "pspan_store"
    /\ write_pos_' = UAdd(prod.w, prod.n)
    /\ pushed' = pushed \o SubSeq(prod.data, 1, prod.n)
    /\ prod' = [Return(prod, "idle") EXCEPT !.ret = prod.n, !.item = prod.item + prod.n]
    /\ UNCHANGED <<ctorVars, capacity_, mask_, buffer_, read_pos_, popped, value, last,
                   cons, obs, done, appVars>>
    /\ occ' = NewOcc

\* --- consumer: try_pop(T&), entered at pc from and returning to pc to
C_PopLoadR(from) ==
    /\ cons.pc = from
    /\ cons' = [Enter(cons, "try_pop", "pop_load_w") EXCEPT !.r = read_pos_]
    /\ UNCHANGED <<ctorVars, rbVars, pushed, popped, value, last, prod, obs, done, appVars>>
    /\ occ' = NewOcc

C_PopLoadW(to) ==
    /\ cons.pc = "pop_load_w"
    /\ cons' = IF PopIsEmpty(cons.r, write_pos_)
               THEN [Return(cons, to) EXCEPT !.ok = FALSE]
               ELSE [cons EXCEPT !.w = write_pos_, !.pc = "pop_read"]
    /\ UNCHANGED <<ctorVars, rbVars, pushed, popped, value, last, prod, obs, done, appVars>>
    /\ occ' = NewOcc

C_PopRead ==
    /\ cons.pc = "pop_read"
    /\ value' = buffer_[Slot(cons.r)]
    /\ cons' = [cons EXCEPT !.pc = "pop_store"]
    /\ UNCHANGED <<ctorVars, rbVars, pushed, popped, last, prod, obs, done, appVars>>
    /\ occ' = NewOcc

C_PopStore(to) ==
    /\ cons.pc = "pop_store"
    /\ read_pos_' = UAdd(cons.r, 1)
    /\ popped' = Append(popped, value)
    /\ cons' = [Return(cons, to) EXCEPT !.ok = TRUE, !.item = cons.item + 1]
    /\ UNCHANGED <<ctorVars, capacity_, mask_, buffer_, write_pos_, pushed, value, last,
                   prod, obs, done, appVars>>
    /\ occ' = NewOcc

\* --- consumer: try_pop(std::span<T>), peek(std::span<T>), discard(count)
C_BulkLoadR(op, k) ==
    /\ cons.pc = "idle"
    /\ cons' = [Enter(cons, op, "bulk_load_w") EXCEPT
                    !.r = read_pos_, !.out = Zeros(IF op = "discard" THEN 0 ELSE k),
                    !.v = k]
    /\ UNCHANGED <<ctorVars, rbVars, pushed, popped, value, last, prod, obs, done, appVars>>
    /\ occ' = NewOcc

C_BulkLoadW ==
    /\ cons.pc = "bulk_load_w"
    /\ LET to_read == PopCount(cons.r, write_pos_, cons.v)
       IN  cons' =
             IF cons.op # "discard" /\ 0 < to_read
             THEN [cons EXCEPT !.w = write_pos_, !.n = to_read, !.i = 0, !.pc = "bulk_read"]
             ELSE IF cons.op = "peek"
             THEN [Return(cons, "idle") EXCEPT !.ret = to_read, !.out = cons.out]
             ELSE [cons EXCEPT !.w = write_pos_, !.n = to_read, !.pc = "bulk_store"]
    /\ UNCHANGED <<ctorVars, rbVars, pushed, popped, value, last, prod, obs, done, appVars>>
    /\ occ' = NewOcc

C_BulkRead ==
    /\ cons.pc = "bulk_read"
    /\ LET out == [cons.out EXCEPT ![cons.i + 1] = buffer_[Slot(UAdd(cons.r, cons.i))]]
       IN  cons' =
             IF cons.i + 1 < cons.n
             THEN [cons EXCEPT !.out = out, !.i = cons.i + 1]
             ELSE IF cons.op = "peek"
             THEN [Return(cons, "idle") EXCEPT !.ret = cons.n, !.out = out]
             ELSE [cons EXCEPT !.out = out, !.i = cons.i + 1, !.pc = "bulk_store"]
    /\ UNCHANGED <<ctorVars, rbVars, pushed, popped, value, last, prod, obs, done, appVars>>
    /\ occ' = NewOcc

C_BulkStore ==
    /\ cons.pc = "bulk_store"
    /\ read_pos_' = UAdd(cons.r, cons.n)
    /\ popped' = IF cons.op = "try_pop_span"
                 THEN popped \o SubSeq(cons.out, 1, cons.n) ELSE popped
    /\ cons' = [Return(cons, "idle") EXCEPT !.ret = cons.n, !.out = cons.out]
    /\ UNCHANGED <<ctorVars, capacity_, mask_, buffer_, write_pos_, pushed, value, last,
                   prod, obs, done, appVars>>
    /\ occ' = NewOcc

\* --- consumer: clear()
C_ClearLoadW ==
    /\ cons.pc = "idle"
    /\ cons' = [Enter(cons, "clear", "clear_store") EXCEPT !.w = write_pos_]
    /\ UNCHANGED <<ctorVars, rbVars, pushed, popped, value, last, prod, obs, done, appVars>>
    /\ occ' = NewOcc

C_ClearStore ==
    /\ cons.pc = "clear_store"
    /\ read_pos_' = ClearPos(cons.w)
    /\ cons' = Return(cons, "idle")
    /\ UNCHANGED <<ctorVars, capacity_, mask_, buffer_, write_pos_, pushed, popped, value,
                   last, prod, obs, done, appVars>>
    /\ occ' = NewOcc

\* --- the threads of the runs in which any call may meet any other
P_Push ==
    \/ /\ ctor = "constructed"
       /\ write_pos_ + 1 <= MaxPosConc
       /\ P_PushLoadW(NextSample)
    \/ P_PushLoadR \/ P_PushWrite \/ P_PushStore

P_PushSpan ==
    \/ \E data \in Spans :
          /\ ctor = "constructed"
          /\ write_pos_ + Len(data) <= MaxPosConc
          /\ P_SpanLoadW(data)
    \/ P_SpanLoadR \/ P_SpanWrite \/ P_SpanStore

C_Pop ==
    \/ (ctor = "constructed" /\ C_PopLoadR("idle"))
    \/ C_PopLoadW("idle") \/ C_PopRead \/ C_PopStore("idle")

C_Bulk ==
    \/ \E op \in {"try_pop_span", "peek", "discard"} : \E k \in 0 .. MaxSpan :
          (ctor = "constructed" /\ C_BulkLoadR(op, k))
    \/ C_BulkLoadW \/ C_BulkRead \/ C_BulkStore

C_Clear == (ctor = "constructed" /\ C_ClearLoadW) \/ C_ClearStore

\* Construction for the runs with threads.
MaxMinCapacityConc == 2
ConstructConc == \E n \in 1 .. MaxMinCapacityConc : RingBuffer(n)

\* size() and available() called by the producer, the consumer and a third
\* thread while the producer pushes and the consumer pops.
NextSize ==
    \/ ConstructConc
    \/ P_Push \/ P_Size
    \/ C_Pop \/ C_Size
    \/ O_Size
SpecSize == InitCommon /\ [][NextSize]_vars

\* The consumer pops, reads in bulk and clears while the producer pushes.
NextClear ==
    \/ ConstructConc
    \/ P_Push \/ P_PushSpan
    \/ C_Pop \/ C_Bulk \/ C_Clear
SpecClear == InitCommon /\ [][NextClear]_vars

\* --- the stress test: ConcurrentProducerConsumer
\* Number of items the producer sends (kNumItems).
NumItems == 4
\* The items in sending order: static_cast<float>(i), i = 0 .. kNumItems - 1.
Items == [j \in 1 .. NumItems |-> j - 1]

\* Producer (main thread): for each i, retry try_push(i) until it succeeds.
S_ProdPush ==
    \/ /\ ctor = "constructed"
       /\ prod.item < NumItems
       /\ P_PushLoadW(prod.item)
    \/ P_PushLoadR \/ P_PushWrite \/ P_PushStore

\* done.store(true, relaxed) after the last item.
S_ProdDone ==
    /\ ctor = "constructed"
    /\ prod.pc = "idle" /\ prod.item = NumItems
    /\ done' = TRUE
    /\ prod' = [prod EXCEPT !.pc = "p_done"]
    /\ UNCHANGED <<ctorVars, rbVars, pushed, popped, value, last, cons, obs, occ, appVars>>

\* Consumer: while (!done.load(relaxed) || !buf.empty())
S_ConsLoadDone ==
    /\ ctor = "constructed"
    /\ cons.pc = "idle"
    /\ cons' = [cons EXCEPT !.pc = IF done THEN "empty_load_w" ELSE "body"]
    /\ UNCHANGED <<ctorVars, rbVars, pushed, popped, value, last, prod, obs, done, occ, appVars>>

S_ConsEmpty ==
    /\ \/ /\ cons.pc = "empty_load_w"
          /\ cons' = [cons EXCEPT !.w = write_pos_, !.pc = "empty_load_r"]
       \/ /\ cons.pc = "empty_load_r"
          /\ cons' = [cons EXCEPT !.w = 0,
                        !.pc = IF USub(cons.w, read_pos_) = 0 THEN "c_done" ELSE "body"]
    /\ UNCHANGED <<ctorVars, rbVars, pushed, popped, value, last, prod, obs, done, occ, appVars>>

\* if (buf.try_pop(value)) received.push_back(value);
S_ConsPop ==
    \/ C_PopLoadR("body") \/ C_PopLoadW("idle") \/ C_PopRead \/ C_PopStore("idle")

\* The main thread constructs the buffer, starts the consumer and produces.
S_Prod == ConstructConc \/ S_ProdPush \/ S_ProdDone
S_Cons == S_ConsLoadDone \/ S_ConsEmpty \/ S_ConsPop

NextStress == S_Prod \/ S_Cons
\* Both threads are scheduled again and again.
SpecStress ==
    InitCommon /\ [][NextStress]_vars /\ WF_vars(S_Prod) /\ WF_vars(S_Cons)

\* --- producer: push_overwrite(const T&)
P_OverLoadW(v) ==
    /\ prod.pc = "idle"
    /\ prod' = [Enter(prod, "push_overwrite", "over_write") EXCEPT !.v = v, !.w = write_pos_]
    /\ UNCHANGED <<ctorVars, rbVars, pushed, popped, value, last, cons, obs, done, appVars>>
    /\ occ' = NewOcc

P_OverWrite ==
    /\ prod.pc = "over_write"
    /\ buffer_' = [buffer_ EXCEPT ![Slot(prod.w)] = prod.v]
    /\ prod' = [prod EXCEPT !.pc = "over_store_w"]
    /\ UNCHANGED <<ctorVars, capacity_, mask_, write_pos_, read_pos_, pushed, popped,
                   value, last, cons, obs, done, appVars>>
    /\ occ' = NewOcc

P_OverStoreW ==
    /\ prod.pc = "over_store_w"
    /\ write_pos_' = UAdd(prod.w, 1)
    /\ pushed' = Append(pushed, prod.v)
    /\ prod' = [prod EXCEPT !.pc = "over_load_r"]
    /\ UNCHANGED <<ctorVars, capacity_, mask_, buffer_, read_pos_, popped, value, last,
                   cons, obs, done, appVars>>
    /\ occ' = NewOcc

P_OverLoadR ==
    /\ prod.pc = "over_load_r"
    /\ prod' = IF Overrun(prod.w, read_pos_)
               THEN [prod EXCEPT !.r = read_pos_, !.pc = "over_store_r"]
               ELSE [Return(prod, "idle") EXCEPT !.ok = FALSE, !.item = prod.item + 1]
    /\ UNCHANGED <<ctorVars, rbVars, pushed, popped, value, last, cons, obs, done, appVars>>
    /\ occ' = NewOcc

P_OverStoreR ==
    /\ prod.pc = "over_store_r"
    /\ read_pos_' = USub(UAdd(prod.w, 1), capacity_)
    /\ prod' = [Return(prod, "idle") EXCEPT !.ok = TRUE, !.item = prod.item + 1]
    /\ UNCHANGED <<ctorVars, capacity_, mask_, buffer_, write_pos_, pushed, popped, value,
                   last, cons, obs, done, appVars>>
    /\ occ' = NewOcc

P_Overwrite ==
    \/ /\ ctor = "constructed"
       /\ write_pos_ + 1 <= MaxPosConc
       /\ P_OverLoadW(NextSample)
    \/ P_OverWrite \/ P_OverStoreW \/ P_OverLoadR \/ P_OverStoreR

C_Discard ==
    \/ \E k \in 1 .. MaxSpan : (ctor = "constructed" /\ C_BulkLoadR("discard", k))
    \/ (cons.op = "discard" /\ (C_BulkLoadW \/ C_BulkStore))

\* The producer overwrites while the consumer pops and discards.
NextOverConc == ConstructConc \/ P_Overwrite \/ C_Pop \/ C_Discard
SpecOverConc == InitCommon /\ [][NextOverConc]_vars

\* --- one call at a time, up to and past the wrap of the counters
\* The calls made on each side of the point where write_pos_ wraps to 0.
WrapWindow == 2
\* Up to the window the producer pushes and the consumer pops one sample at
\* a time; in the window every operation is called.
NearWrap == Len(pushed) >= SizeMod - WrapWindow
PastWrap == Len(pushed) >= SizeMod + WrapWindow

W_TryPush ==
    /\ ctor = "constructed" /\ ~PastWrap
    /\ LET t == try_push(RB, NextSample)
       IN  /\ SetRB(t.S)
           /\ pushed' = IF t.ret THEN Append(pushed, NextSample) ELSE pushed
           /\ last' = Call("try_push", NextSample, <<>>, t.ret, 0, <<>>)
    /\ UNCHANGED <<ctorVars, popped, value, threadVars, appVars>>

W_TryPushSpan ==
    \E data \in Spans :
        /\ ctor = "constructed" /\ NearWrap /\ ~PastWrap
        /\ LET t == try_push_span(RB, data)
           IN  /\ SetRB(t.S)
               /\ pushed' = pushed \o SubSeq(data, 1, t.ret)
               /\ last' = Call("try_push_span", 0, data, t.ret > 0, t.ret, <<>>)
        /\ UNCHANGED <<ctorVars, popped, value, threadVars, appVars>>

W_PushOverwrite ==
    /\ ctor = "constructed" /\ NearWrap /\ ~PastWrap
    /\ LET t == push_overwrite(RB, NextSample)
       IN  /\ SetRB(t.S)
           /\ pushed' = Append(pushed, NextSample)
           /\ last' = Call("push_overwrite", NextSample, <<>>, t.dropped, 0, <<>>)
    /\ UNCHANGED <<ctorVars, popped, value, threadVars, appVars>>

W_Bulk == NearWrap /\ (TryPopSpan \/ Peek \/ Discard)

NextWrap ==
    \/ ConstructConc
    \/ W_TryPush \/ W_TryPushSpan \/ W_PushOverwrite
    \/ TryPop \/ W_Bulk
SpecWrap == InitCommon /\ [][NextWrap]_vars

\* =====================================================================
\* FFTProcessor (src/fft_processor.cpp, include/audiovis/fft_processor.hpp)
\* =====================================================================
\* Largest fft_size an FFTProcessor is constructed with.
MaxFftSize == 4
\* Longest span of samples handed to compute.
MaxSamples == 5

fft_size(F) == F.config_.fft_size
bin_count(F) == fft_size(F) \div 2 + 1

\* if ((fft_size & (fft_size - 1)) != 0) throw std::invalid_argument
SizeRejected_odd(n) == n % 2 = 1
SizeRejected(n) == BitAnd(n, USub(n, 1)) # 0

\* fftwf_plan_dft_r2c_1d(n, ...): FFTW plans transforms of positive size
\* only and returns no plan otherwise.
PlanCreated(n) == n > 0

\* std::cos(2 pi k / d), d > 0, for the angles whose cosine is rational.
CosTurn(k, d) ==
    LET t == Frac(k % d, d)
    IN  CASE t[2] = 1 -> Flt(1)
          [] t[2] = 2 -> Flt(-1)
          [] t[2] = 3 -> <<-1, 2>>
          [] t[2] = 4 -> Flt(0)
          [] t[2] = 6 -> <<1, 2>>

\* The coefficient window_[i] of compute_window for n = fft_size:
\* x = float(i) / float(n - 1), which is 0/0 when n = 1.
window_coeff(window, i, n) ==
    IF window = "Rectangular" THEN Flt(1)
    ELSE
      LET x == FDiv(Flt(i), Flt(USub(n, 1)))
          Cos(m) == IF IsFinite(x) THEN CosTurn(m * x[1], x[2]) ELSE NaN
          \* twice the cosine, an integer
          C2(m) == FMul(Flt(2), Cos(m))[1]
      IN  CASE window = "Hann" ->
                 FMul(<<1, 2>>, FSub(Flt(1), Cos(1)))
            [] window = "Hamming" ->
                 FSub(<<27, 50>>, FMul(<<23, 50>>, Cos(1)))
            [] window = "Blackman" ->
                 FAdd(FSub(<<21, 50>>, FMul(<<1, 2>>, Cos(1))), FMul(<<2, 25>>, Cos(2)))
            [] window = "FlatTop" ->
                 \* the five coefficients in units of 10^-9, the sum doubled
                 IF IsFinite(x)
                 THEN Frac(2 * 215578950 - 416631580 * C2(1) + 277263158 * C2(2)
                             - 83578947 * C2(3) + 6947368 * C2(4),
                           2 * 1000000000)
                 ELSE NaN

compute_window(config) ==
    [i \in 1 .. config.fft_size |-> window_coeff(config.window, i - 1, config.fft_size)]

\* FFTProcessor::FFTProcessor(config): the power-of-two test, then
\* allocate_buffers (which throws std::runtime_error without a plan), then
\* compute_window. The transform's input buffer is allocated without being
\* written; compute writes all of it before the transform reads it.
FFTProcessorCtor(config) ==
    IF SizeRejected(config.fft_size)
    THEN [NoFFTProcessor EXCEPT !.state = "invalid_argument", !.config_ = config]
    ELSE IF ~PlanCreated(config.fft_size)
    THEN [NoFFTProcessor EXCEPT !.state = "runtime_error", !.config_ = config]
    ELSE [state |-> "constructed", config_ |-> config, plan |-> TRUE,
          window_ |-> compute_window(config),
          input |-> [i \in 1 .. config.fft_size |-> NaN]]

\* --- compute
\* for (i = 0; i < offset; ++i) input[i] = 0.0f;
RECURSIVE ZeroLoop(_, _, _)
ZeroLoop(input, i, offset) ==
    IF i < offset
    THEN ZeroLoop([input EXCEPT ![i + 1] = Flt(0)], i + 1, offset)
    ELSE input

\* samples.size() - copy_count + i
SampleIndex_first(L, copy_count, i) == i
SampleIndex(L, copy_count, i) == USub(L, copy_count) + i

\* for (i = 0; i < copy_count; ++i)
\*     input[offset + i] = samples[samples.size() - copy_count + i] * window_[offset + i];
RECURSIVE CopyLoop(_, _, _, _, _, _)
CopyLoop(input, samples, window, i, copy_count, offset) ==
    IF i < copy_count
    THEN CopyLoop([input EXCEPT ![offset + i + 1] =
                      FMul(Flt(samples[SampleIndex(Len(samples), copy_count, i) + 1]),
                           window[offset + i + 1])],
                  samples, window, i + 1, copy_count, offset)
    ELSE input

\* Every index the two loops use lies inside its array.
LoopsInRange(L, n, copy_count, offset) ==
    /\ \A i \in 0 .. offset - 1 : i < n
    /\ \A i \in 0 .. copy_count - 1 :
          /\ offset + i < n
          /\ SampleIndex(L, copy_count, i) < L

\* The moduli sqrt(re^2 + im^2) a transform of size n may put out per bin.
Moduli(n) == {Flt(0), Frac(n, 4), Flt(n)}
\* The spectra drawn: one modulus in every bin, or a line in every other bin.
Spectra(F) ==
    {[i \in 1 .. bin_count(F) |-> m] : m \in Moduli(fft_size(F))}
        \cup {[i \in 1 .. bin_count(F) |-> IF i % 2 = 1 THEN Flt(fft_size(F)) ELSE Flt(0)]}

\* fftwf_execute(plan): the modulus of every output bin. A transform is
\* linear: it is zero on a zero input and NaN throughout on an input that
\* holds a NaN; on any other input the moduli are those of spectrum.
Transform(input, spectrum) ==
    IF \E i \in DOMAIN input : IsNaN(input[i]) THEN [i \in DOMAIN spectrum |-> NaN]
    ELSE IF \A i \in DOMAIN input : input[i] = Flt(0)
    THEN [i \in DOMAIN spectrum |-> Flt(0)]
    ELSE spectrum

RECURSIVE ILog2(_)
ILog2(n) == IF n <= 1 THEN 0 ELSE 1 + ILog2(n \div 2)

\* std::log10(magnitude + epsilon), epsilon = 1e-10f: -10 for magnitude 0;
\* a magnitude 2^k with k >= -9 absorbs epsilon in the float sum and gives
\* k * log10(2), taken as k * 0.30103 (other magnitudes: the power of two
\* below them).
Log10PlusEpsilon(magnitude) ==
    IF ~IsFinite(magnitude) THEN magnitude
    ELSE IF magnitude[1] < 0 THEN NaN
    ELSE IF magnitude[1] = 0 THEN Flt(-10)
    ELSE Frac((ILog2(magnitude[1]) - ILog2(magnitude[2])) * 30103, 100000)

\* The body of the magnitude loop for bin i (0-based) with modulus mod.
Normalised_noclamp(db, config) ==
    FDiv(FSub(db, config.db_floor), FSub(config.db_ceiling, config.db_floor))
Normalised(db, config) ==
    FDiv(FSub(FClamp(db, config.db_floor, config.db_ceiling), config.db_floor),
         FSub(config.db_ceiling, config.db_floor))

BinOutput(mod, i, num_bins, config) ==
    LET scale == FDiv(Flt(2), Flt(config.fft_size))
        m0 == FMul(mod, scale)
        magnitude == IF i = 0 \/ i = num_bins - 1 THEN FMul(m0, <<1, 2>>) ELSE m0
    IN  IF config.use_magnitude_db
        THEN Normalised(FMul(Flt(20), Log10PlusEpsilon(magnitude)), config)
        ELSE magnitude

\* compute(samples, output) on processor F, the transform giving spectrum.
compute(F, samples, spectrum) ==
    LET n == fft_size(F)
        copy_count == Min(Len(samples), n)
        offset == USub(n, copy_count)
        input == CopyLoop(ZeroLoop(F.input, 0, offset), samples, F.window_,
                          0, copy_count, offset)
        mods == Transform(input, spectrum)
        num_bins == bin_count(F)
    IN  [F |-> [F EXCEPT !.input = input],
         output |-> [i \in 1 .. num_bins |-> BinOutput(mods[i], i - 1, num_bins, F.config_)],
         in_range |-> LoopsInRange(Len(samples), n, copy_count, offset),
         ret |-> num_bins]

\* --- bin and frequency
\* static_cast<std::size_t>(x) of a float: truncation when the truncated
\* value fits std::size_t, undefined otherwise (ub is what the build gives).
ToSize(x, ub) ==
    IF IsFinite(x) /\ x[1] >= 0 /\ x[1] \div x[2] < SizeMod THEN x[1] \div x[2]
    ELSE IF IsFinite(x) /\ x[1] < 0 /\ (-x[1]) \div x[2] = 0 THEN 0
    ELSE ub

bin_to_frequency(F, bin_index, sample_rate) ==
    FDiv(FMul(Flt(bin_index), sample_rate), Flt(fft_size(F)))

frequency_to_bin_nomin(F, frequency, sample_rate, ub) ==
    ToSize(FAdd(FDiv(FMul(frequency, Flt(fft_size(F))), sample_rate), <<1, 2>>), ub)
frequency_to_bin(F, frequency, sample_rate, ub) ==
    LET bin == ToSize(FAdd(FDiv(FMul(frequency, Flt(fft_size(F))), sample_rate),
                           <<1, 2>>), ub)
    IN  Min(bin, bin_count(F) - 1)

\* --- the calls made on one FFTProcessor
\* The dB ranges drawn: the default one, one above the level of silence
\* (-200 dB), one around it and one below it.
DbRanges == {<<-80, 0>>, <<-250, 0>>, <<-250, -220>>}
FFTConfigs ==
    {FFTConfig(n, w, TRUE, Flt(r[1]), Flt(r[2])) :
        n \in 0 .. MaxFftSize, w \in WindowFunctions, r \in DbRanges}
    \cup {FFTConfig(n, w, FALSE, Flt(-80), Flt(0)) :
             n \in 0 .. MaxFftSize, w \in WindowFunctions}

\* Spans of samples: the silent ones and those that repeat -1, 0, 1 from
\* some phase on.
SampleSpans ==
    {[j \in 1 .. L |-> 0] : L \in 0 .. MaxSamples}
        \cup {[j \in 1 .. L |-> ((j + ph) % 3) - 1] : L \in 1 .. MaxSamples, ph \in 0 .. 1}

\* Sample rates and frequencies (Hz) of the bin / frequency calls.
SampleRates == {Flt(1), Flt(8)}
Frequencies == {Flt(0), <<1, 2>>, Flt(1), Flt(3), Flt(8), Flt(50), Flt(400)}
\* What an out-of-range conversion to std::size_t may give.
UndefinedSizes == {0, SizeMod - 1}

\* The runs follow a construction by one call, or by bin_to_frequency calls
\* and one call more.
FFT_MayCall ==
    fft_.state = "constructed" /\ result.op \in {"FFTProcessor", "bin_to_frequency"}

FFT_Construct ==
    \E config \in FFTConfigs :
        /\ fft_.state = "none"
        /\ fft_' = FFTProcessorCtor(config)
        /\ result' = [NoResult EXCEPT !.op = "FFTProcessor",
                                      !.error = IF fft_'.state = "constructed"
                                                THEN "none" ELSE fft_'.state]
        /\ UNCHANGED <<ctorVars, rbVars, pushed, popped, value, last, threadVars,
                       audio_, stream_, analyzerVars>>

FFT_Compute ==
    \E samples \in SampleSpans : \E spectrum \in Spectra(fft_) :
        /\ FFT_MayCall
        /\ LET c == compute(fft_, samples, spectrum)
           IN  /\ fft_' = c.F
               /\ result' = [NoResult EXCEPT !.op = "compute", !.samples = samples,
                                             !.output = c.output, !.ret = c.ret,
                                             !.in_range = c.in_range]
        /\ UNCHANGED <<ctorVars, rbVars, pushed, popped, value, last, threadVars,
                       audio_, stream_, analyzerVars>>

FFT_BinToFrequency ==
    \E bin_index \in 0 .. MaxFftSize : \E sample_rate \in SampleRates :
        /\ FFT_MayCall
        /\ result' = [NoResult EXCEPT !.op = "bin_to_frequency",
                                      !.arg = <<bin_index, sample_rate>>,
                                      !.freq = bin_to_frequency(fft_, bin_index, sample_rate)]
        /\ UNCHANGED <<ctorVars, rbVars, pushed, popped, value, last, threadVars,
                       fft_, audio_, stream_, analyzerVars>>

\* frequency_to_bin of a listed frequency or of the frequency the preceding
\* bin_to_frequency returned.
FFT_FrequencyToBin ==
    \E frequency \in Frequencies \cup {result.freq} :
    \E sample_rate \in SampleRates : \E ub \in UndefinedSizes :
        /\ FFT_MayCall
        /\ result' = [NoResult EXCEPT !.op = "frequency_to_bin",
                                      !.arg = <<frequency, sample_rate>>,
                                      !.ret = frequency_to_bin(fft_, frequency, sample_rate, ub)]
        /\ UNCHANGED <<ctorVars, rbVars, pushed, popped, value, last, threadVars,
                       fft_, audio_, stream_, analyzerVars>>

NextFft == FFT_Construct \/ FFT_Compute \/ FFT_BinToFrequency \/ FFT_FrequencyToBin
SpecFft == InitCommon /\ [][NextFft]_vars

\* ------------------------------------------------------------ AudioCapture
\* The longest callback batch, and caps on the calls made to one capture.
MaxBatch == 2
MaxStarts == 2
MaxCallbacks == 3

\* RingBuffer(min_capacity) as the member of another object: the members only.
RingBufferMembers(n) ==
    /\ ctor' = "constructed"
    /\ min_capacity' = n
    /\ capacity_' = next_power_of_two(n)
    /\ mask_' = USub(capacity_', 1)
    /\ buffer_' = [j \in 0 .. capacity_' - 1 |-> 0]
    /\ write_pos_' = 0 /\ read_pos_' = 0
    /\ assert_ok' = (capacity_' > 0 /\ BitAnd(capacity_', mask_') = 0)

\* The backend, by its contract. Pa_StartStream makes a stopped stream active,
\* or fails and leaves it stopped; Pa_StopStream returns with the stream
\* stopped, after the callback in progress has returned.
Pa_OpenStream(St) == [St EXCEPT !.state = "stopped"]
Pa_StartStream(St, ok) ==
    [St EXCEPT !.starts = @ + 1, !.state = IF ok THEN "active" ELSE @]
Pa_StopStream(St) == [St EXCEPT !.stops = @ + 1, !.state = "stopped"]
Pa_CloseStream(St) == [St EXCEPT !.state = "closed"]

\* AudioCapture(config), once the device is found and the stream is open.
AudioCaptureCtor(sample_rate) ==
    [NoAudioCapture EXCEPT !.state = "constructed", !.sample_rate = sample_rate]

is_running(A) == A.running_

\* start() without the early return.
start_nocheck(A, St, ok) ==
    LET S2 == Pa_StartStream(St, ok)
    IN  IF ~ok
        THEN [A |-> A, St |-> S2, error |-> "runtime_error"]
        ELSE [A |-> [A EXCEPT !.running_ = TRUE], St |-> S2, error |-> "none"]

start(A, St, ok) ==
    IF A.running_
    THEN [A |-> A, St |-> St, error |-> "none"]
    ELSE LET S2 == Pa_StartStream(St, ok)
         IN  IF ~ok
             THEN [A |-> A, St |-> S2, error |-> "runtime_error"]
             ELSE [A |-> [A EXCEPT !.running_ = TRUE], St |-> S2, error |-> "none"]

stop(A, St) ==
    IF ~A.running_
    THEN [A |-> A, St |-> St]
    ELSE [A |-> [A EXCEPT !.running_ = FALSE], St |-> Pa_StopStream(St)]

\* ~AudioCapture(): stop(), then the stream is closed.
AudioCaptureDtor(A, St) ==
    LET s == stop(A, St)
    IN  [A |-> [s.A EXCEPT !.state = "destroyed"],
         St |-> IF s.St.state # "closed" THEN Pa_CloseStream(s.St) ELSE s.St]

\* max |sample| over the batch, from 0.
SpanPeak(samples) ==
    LET m[i \in 0 .. Len(samples)] ==
            IF i = 0 THEN Flt(0) ELSE FMax(m[i - 1], FAbs(Flt(samples[i])))
    IN  m[Len(samples)]

\* process_audio that counts the samples written as captured.
process_audio_written(A, S, samples, input_overflow) ==
    LET o1 == IF input_overflow THEN A.overruns_ + 1 ELSE A.overruns_
        peak == SpanPeak(samples)
        p == try_push_span(S, samples)
    IN  [A |-> [A EXCEPT !.overruns_ = IF p.ret < Len(samples) THEN o1 + 1 ELSE o1,
                         !.peak_amplitude_ = IF FLess(@, peak) THEN peak ELSE @,
                         !.frames_captured_ = @ + p.ret,
                         !.callback_count_ = @ + 1],
         S |-> p.S, written |-> p.ret]

\* process_audio(samples, status_flags); input_overflow is
\* (status_flags & paInputOverflow) != 0.
process_audio(A, S, samples, input_overflow) ==
    LET o1 == IF input_overflow THEN A.overruns_ + 1 ELSE A.overruns_
        peak == SpanPeak(samples)
        p == try_push_span(S, samples)
    IN  [A |-> [A EXCEPT !.overruns_ = IF p.ret < Len(samples) THEN o1 + 1 ELSE o1,
                         !.peak_amplitude_ = IF FLess(@, peak) THEN peak ELSE @,
                         !.frames_captured_ = @ + Len(samples),
                         !.callback_count_ = @ + 1],
         S |-> p.S, written |-> p.ret]

\* The state a call starts in.
Pre ==
    [audio |-> audio_, stream |-> stream_, buffer |-> buffer_,
     write_pos |-> write_pos_, read_pos |-> read_pos_, size |-> size,
     pushed |-> Len(pushed), free |-> available,
     fft |-> fft_, config |-> analyzer_config_, band_bins |-> band_bins_,
     smoothed_magnitudes |-> smoothed_magnitudes_, peak_values |-> peak_values_]

BufferSamples == {1, 2, 4}
CaptureRates == {8}
Batches == {NextSpan(k) : k \in 1 .. MaxBatch}

\* --------------------------------------- capture, one call at a time
AC_Construct ==
    \E n \in BufferSamples : \E sample_rate \in CaptureRates : \E opened \in BOOLEAN :
        /\ ctor = "new" /\ audio_.state = "none"
        /\ IF opened
           THEN /\ RingBufferMembers(n)
                /\ audio_' = AudioCaptureCtor(sample_rate)
                /\ stream_' = Pa_OpenStream(stream_)
           ELSE UNCHANGED <<ctorVars, rbVars, audio_, stream_>>
        /\ result' = [NoResult EXCEPT !.op = "AudioCapture",
                                      !.error = IF opened THEN "none" ELSE "runtime_error"]
        /\ UNCHANGED <<pushed, popped, value, last, threadVars, fft_, analyzerVars, guard_>>

AC_Idle == audio_.state = "constructed" /\ audio_.pc = "idle" /\ ~stream_.in_callback

StartWith(ok) ==
    /\ AC_Idle /\ (audio_.running_ \/ stream_.starts < MaxStarts)
    /\ LET s == start(audio_, stream_, ok)
       IN  /\ audio_' = s.A
           /\ stream_' = s.St
           /\ result' = [NoResult EXCEPT !.op = "start", !.error = s.error,
                                         !.frame = result.frame,
                                         !.changes = result.changes, !.pre = Pre]
    /\ UNCHANGED <<ctorVars, rbVars, pushed, popped, value, last, threadVars,
                   fft_, analyzerVars>>

AC_Start == \E ok \in BOOLEAN : StartWith(ok)

AC_Stop ==
    /\ AC_Idle
    /\ LET s == stop(audio_, stream_)
       IN  /\ audio_' = s.A
           /\ stream_' = s.St
           /\ result' = [NoResult EXCEPT !.op = "stop", !.pre = Pre]
    /\ UNCHANGED <<ctorVars, rbVars, pushed, popped, value, last, threadVars,
                   fft_, analyzerVars>>

AC_Destroy ==
    /\ AC_Idle
    /\ LET d == AudioCaptureDtor(audio_, stream_)
       IN  /\ audio_' = d.A
           /\ stream_' = d.St
           /\ result' = [NoResult EXCEPT !.op = "~AudioCapture", !.pre = Pre]
    /\ UNCHANGED <<ctorVars, rbVars, pushed, popped, value, last, threadVars,
                   fft_, analyzerVars>>

\* audio_callback with one batch: the backend calls it while the stream is
\* active.
CallbackWith(samples, input_overflow) ==
    /\ AC_Idle /\ stream_.state = "active"
    /\ audio_.callback_count_ < MaxCallbacks
    /\ LET p == process_audio(audio_, RB, samples, input_overflow)
       IN  /\ audio_' = p.A
           /\ SetRB(p.S)
           /\ pushed' = pushed \o SubSeq(samples, 1, p.written)
           /\ stream_' = [stream_ EXCEPT !.dropped = @ + Len(samples) - p.written]
           /\ result' = [NoResult EXCEPT !.op = "process_audio", !.samples = samples,
                                         !.arg = <<input_overflow>>,
                                         !.ret = p.written,
                                         !.frame = result.frame,
                                         !.changes = result.changes, !.pre = Pre]
    /\ UNCHANGED <<ctorVars, popped, value, last, threadVars, fft_, analyzerVars>>

AC_Callback ==
    \E samples \in Batches : \E input_overflow \in BOOLEAN :
        CallbackWith(samples, input_overflow)

\* The other thread takes samples out: buffer().discard(count).
AC_Discard ==
    \E count \in 1 .. MaxBatch :
        /\ audio_.state = "constructed" /\ ~stream_.in_callback
        /\ size > 0
        /\ LET d == discard(RB, count)
           IN  /\ SetRB(d.S)
               /\ result' = [NoResult EXCEPT !.op = "discard", !.ret = d.ret, !.pre = Pre]
        /\ UNCHANGED <<ctorVars, pushed, popped, value, last, threadVars,
                       fft_, audio_, stream_, analyzerVars>>

NextCapture ==
    AC_Construct \/ AC_Start \/ AC_Stop \/ AC_Destroy \/ AC_Callback \/ AC_Discard
SpecCapture == InitCommon /\ [][NextCapture]_vars

\* ------------------- capture, statement by statement, with the audio thread
\* start(): the load of running_, Pa_StartStream, the store of true.
AC_StartLoad ==
    /\ audio_.state = "constructed" /\ audio_.pc = "idle"
    /\ audio_.running_ \/ stream_.starts < MaxStarts
    /\ IF audio_.running_
       THEN /\ result' = [NoResult EXCEPT !.op = "start", !.pre = Pre]
            /\ UNCHANGED audio_
       ELSE /\ audio_' = [audio_ EXCEPT !.pc = "start_backend"]
            /\ UNCHANGED result
    /\ UNCHANGED <<ctorVars, rbVars, pushed, popped, value, last, threadVars,
                   fft_, stream_, analyzerVars>>

AC_StartBackend ==
    \E ok \in BOOLEAN :
        /\ audio_.pc = "start_backend"
        /\ stream_' = Pa_StartStream(stream_, ok)
        /\ IF ok
           THEN /\ audio_' = [audio_ EXCEPT !.pc = "start_store"]
                /\ UNCHANGED result
           ELSE /\ audio_' = [audio_ EXCEPT !.pc = "idle"]
                /\ result' = [NoResult EXCEPT !.op = "start", !.error = "runtime_error",
                                              !.pre = Pre]
        /\ UNCHANGED <<ctorVars, rbVars, pushed, popped, value, last, threadVars,
                       fft_, analyzerVars>>

AC_StartStore ==
    /\ audio_.pc = "start_store"
    /\ audio_' = [audio_ EXCEPT !.running_ = TRUE, !.pc = "idle"]
    /\ result' = [NoResult EXCEPT !.op = "start", !.pre = Pre]
    /\ UNCHANGED <<ctorVars, rbVars, pushed, popped, value, last, threadVars,
                   fft_, stream_, analyzerVars>>

\* stop(): the load of running_, the store of false, Pa_StopStream.
AC_StopLoad ==
    /\ audio_.state = "constructed" /\ audio_.pc = "idle"
    /\ IF ~audio_.running_
       THEN /\ result' = [NoResult EXCEPT !.op = "stop", !.pre = Pre]
            /\ UNCHANGED audio_
       ELSE /\ audio_' = [audio_ EXCEPT !.pc = "stop_store"]
            /\ UNCHANGED result
    /\ UNCHANGED <<ctorVars, rbVars, pushed, popped, value, last, threadVars,
                   fft_, stream_, analyzerVars>>

AC_StopStore ==
    /\ audio_.pc = "stop_store"
    /\ audio_' = [audio_ EXCEPT !.running_ = FALSE, !.pc = "stop_backend"]
    /\ UNCHANGED <<ctorVars, rbVars, pushed, popped, value, last, threadVars,
                   fft_, stream_, analyzerVars, result>>

\* Pa_StopStream returns when the callback in progress has returned.
AC_StopBackend ==
    /\ audio_.pc = "stop_backend" /\ ~stream_.in_callback
    /\ stream_' = Pa_StopStream(stream_)
    /\ audio_' = [audio_ EXCEPT !.pc = "idle"]
    /\ result' = [NoResult EXCEPT !.op = "stop", !.pre = Pre]
    /\ UNCHANGED <<ctorVars, rbVars, pushed, popped, value, last, threadVars,
                   fft_, analyzerVars>>

\* The audio thread enters audio_callback while the stream is active ...
AC_CallbackEnter ==
    /\ stream_.state = "active" /\ ~stream_.in_callback
    /\ audio_.callback_count_ < MaxCallbacks
    /\ stream_' = [stream_ EXCEPT !.in_callback = TRUE]
    /\ UNCHANGED <<ctorVars, rbVars, pushed, popped, value, last, threadVars,
                   fft_, audio_, analyzerVars, result>>

\* ... and returns paContinue after process_audio.
AC_CallbackReturn ==
    \E samples \in Batches : \E input_overflow \in BOOLEAN :
        /\ stream_.in_callback
        /\ LET p == process_audio(audio_, RB, samples, input_overflow)
           IN  /\ audio_' = [p.A EXCEPT !.pc = audio_.pc]
               /\ SetRB(p.S)
               /\ pushed' = pushed \o SubSeq(samples, 1, p.written)
               /\ stream_' = [stream_ EXCEPT !.dropped = @ + Len(samples) - p.written,
                                             !.in_callback = FALSE]
               /\ result' = [NoResult EXCEPT !.op = "process_audio", !.samples = samples,
                                             !.arg = <<input_overflow>>,
                                             !.ret = p.written, !.pre = Pre]
        /\ UNCHANGED <<ctorVars, popped, value, last, threadVars, fft_, analyzerVars>>

NextCaptureConc ==
    \/ AC_Construct
    \/ AC_StartLoad \/ AC_StartBackend \/ AC_StartStore
    \/ AC_StopLoad \/ AC_StopStore \/ AC_StopBackend
    \/ AC_CallbackEnter \/ AC_CallbackReturn
SpecCaptureConc == InitCommon /\ [][NextCaptureConc]_vars

\* ----------------------------------------------------------- PortAudioGuard
\* The backend library, by its contract: Pa_Initialize succeeds and leaves
\* the library initialised, or fails and leaves it as it was; Pa_Terminate
\* leaves it terminated.
Pa_Initialize(G, ok) ==
    IF ok THEN [G EXCEPT !.initialized = TRUE, !.inits = @ + 1] ELSE G
Pa_Terminate(G) == [G EXCEPT !.initialized = FALSE, !.terms = @ + 1]

GuardUnchanged ==
    UNCHANGED <<ctor, min_capacity, assert_ok, rbVars, pushed, popped, value, last,
                threadVars, appVars>>

\* PortAudioGuard(): ref_count_.fetch_add(1) == 0 ...
G_CtorFetchAdd(t) ==
    /\ guard_.th[t].pc = "none" /\ guard_.th[t].begun < MaxGuards
    /\ guard_' = [guard_ EXCEPT !.ref_count_ = @ + 1,
                                !.th[t].begun = @ + 1,
                                !.th[t].pc = IF guard_.ref_count_ = 0 THEN "initialize"
                                             ELSE "held"]
    /\ GuardUnchanged

\* ... Pa_Initialize() and the test of err ...
G_CtorInitialize(t) ==
    \E ok \in BOOLEAN :
        /\ guard_.th[t].pc = "initialize"
        /\ guard_' = [Pa_Initialize(guard_, ok) EXCEPT
                          !.th[t].pc = IF ok THEN "held" ELSE "undo"]
        /\ GuardUnchanged

\* The failure path without the fetch_sub.
G_CtorUndo_keep(t) ==
    /\ guard_.th[t].pc = "undo"
    /\ guard_' = [guard_ EXCEPT !.th[t].failed = @ + 1, !.th[t].pc = "none"]
    /\ GuardUnchanged

\* ... on failure ref_count_.fetch_sub(1) and throw std::runtime_error.
G_CtorUndo(t) ==
    /\ guard_.th[t].pc = "undo"
    /\ guard_' = [guard_ EXCEPT !.ref_count_ = @ - 1,
                                !.th[t].failed = @ + 1, !.th[t].pc = "none"]
    /\ GuardUnchanged

\* ~PortAudioGuard(): ref_count_.fetch_sub(1) == 1 ...
G_DtorFetchSub(t) ==
    /\ guard_.th[t].pc = "held"
    /\ guard_' = [guard_ EXCEPT !.ref_count_ = @ - 1,
                                !.th[t].pc = IF guard_.ref_count_ = 1 THEN "terminate"
                                             ELSE "none"]
    /\ GuardUnchanged

\* ... Pa_Terminate().
G_DtorTerminate(t) ==
    /\ guard_.th[t].pc = "terminate"
    /\ guard_' = [Pa_Terminate(guard_) EXCEPT !.th[t].pc = "none"]
    /\ GuardUnchanged

G_Construct == \E t \in GuardThreads : G_CtorFetchAdd(t)
G_Initialize == \E t \in GuardThreads : G_CtorInitialize(t)
G_Undo == \E t \in GuardThreads : G_CtorUndo(t)
G_Destroy == \E t \in GuardThreads : G_DtorFetchSub(t)
G_Terminate == \E t \in GuardThreads : G_DtorTerminate(t)

\* Guards constructed and destroyed by threads whose steps interleave.
NextGuard == G_Construct \/ G_Initialize \/ G_Undo \/ G_Destroy \/ G_Terminate
SpecGuard == InitCommon /\ [][NextGuard]_vars

\* --------------------------------------------------------- SpectrumAnalyzer
\* The most display bands, and the most update() frames of one analyzer.
MaxBands == 2
MaxFrames == 3
\* The most set_config calls on one analyzer.
MaxConfigChanges == 1

\* --- band mapping
\* std::log10 of a frequency; the frequencies drawn are powers of ten.
Log10(f) == CHOOSE k \in 0 .. 2 : f = Flt(10 ^ k)

\* freq_to_bin(std::pow(10.0f, e)) for an exponent e = p / q >= 0: the
\* largest k with k <= 10^(p/q) * fft_size / sample_rate, clamped to
\* [0, bin_count - 1]. k*sr <= 10^(p/q) * n is tested as (k*sr)^q <= 10^p * n^q.
freq_to_bin(e, n_bins, sample_rate, n) ==
    LET p == e[1]
        q == e[2]
        Fits(k) == (k * sample_rate) ^ q <= (10 ^ p) * (n ^ q)
        bin == CHOOSE k \in 0 .. n_bins : Fits(k) /\ (k = n_bins \/ ~Fits(k + 1))
    IN  IF bin > n_bins - 1 THEN n_bins - 1 ELSE bin

compute_log_bands(n_bins, num_bars, min_freq, max_freq, sample_rate, n) ==
    LET log_min == Flt(Log10(min_freq))
        log_max == Flt(Log10(max_freq))
        log_step == FDiv(FSub(log_max, log_min), Flt(num_bars))
        Exp(i) == FAdd(log_min, FMul(log_step, Flt(i)))
    IN  [b \in 1 .. num_bars |->
            LET bin_lo == freq_to_bin(Exp(b - 1), n_bins, sample_rate, n)
                bin_hi0 == freq_to_bin(Exp(b), n_bins, sample_rate, n)
                bin_hi == IF bin_hi0 <= bin_lo THEN bin_lo + 1 ELSE bin_hi0
            IN  <<bin_lo, Min(bin_hi, n_bins)>>]

\* recompute_band_mapping(): band_bins_ for a configuration, on processor F
\* at the capture's sample rate.
recompute_band_mapping(config, F, sample_rate) ==
    IF config.logarithmic_frequency
    THEN compute_log_bands(bin_count(F), config.num_bands, config.min_frequency,
                           config.max_frequency, sample_rate, fft_size(F))
    ELSE LET bins_per_band == bin_count(F) \div config.num_bands
         IN  [b \in 1 .. config.num_bands |->
                <<(b - 1) * bins_per_band, Min(b * bins_per_band, bin_count(F))>>]

\* compute_band_magnitude(band_index), band_index from 0.
compute_band_magnitude(bands, magnitudes, band_index) ==
    LET bin_start == bands[band_index + 1][1]
        bin_end == bands[band_index + 1][2]
        sum[i \in bin_start .. bin_end] ==
            IF i = bin_start THEN Flt(0) ELSE FAdd(sum[i - 1], magnitudes[i])
    IN  IF bin_start >= bin_end THEN Flt(0)
        ELSE FDiv(sum[bin_end], Flt(bin_end - bin_start))

\* A resize that keeps no entry.
Resize_fresh(v, n) == [i \in 1 .. n |-> Flt(0)]

\* std::vector::resize(n, 0.0f)
Resize(v, n) == [i \in 1 .. n |-> IF i <= Len(v) THEN v[i] ELSE Flt(0)]

\* --- update()
\* The members update() reads and writes, as one value.
Analyzer ==
    [config |-> analyzer_config_, S |-> RB, F |-> fft_,
     sample_buffer |-> sample_buffer_, magnitude_buffer |-> magnitude_buffer_,
     smoothed_magnitudes |-> smoothed_magnitudes_, peak_values |-> peak_values_,
     band_bins |-> band_bins_]

\* A test that never finds the analyzer starved.
Starved_never(available_, needed) == FALSE

\* if (available < needed / 4)
Starved(available_, needed) == available_ < needed \div 4

\* The larger of the smoothed value and the decayed peak.
PeakHold_max(smoothed, peak, decay) == FMax(smoothed, FMul(peak, decay))

\* Peak hold with decay, for one band.
PeakHold(smoothed, peak, decay) ==
    IF FLess(peak, smoothed) THEN smoothed ELSE FMul(peak, decay)

\* sum_squares and peak over the first read_count samples.
SumSquares(samples, read_count) ==
    LET s[i \in 0 .. read_count] ==
            IF i = 0 THEN Flt(0)
            ELSE FAdd(s[i - 1], FMul(Flt(samples[i]), Flt(samples[i])))
    IN  s[read_count]

\* update() on analyzer A, the transform giving spectrum.
update(A, spectrum) ==
    LET avail == size_of(A.S)
        needed == fft_size(A.F)
    IN  IF Starved(avail, needed)
        THEN [A |-> A, starved |-> TRUE,
              magnitudes |-> A.smoothed_magnitudes, peaks |-> A.peak_values,
              rms_level |-> FSqrt(Flt(0)), peak_level |-> Flt(0),
              raw |-> <<>>, read_count |-> 0]
        ELSE
        LET S1 == IF avail > needed THEN discard(A.S, avail - needed).S ELSE A.S
            pk == peek(S1, A.sample_buffer)
            read_count == pk.ret
            samples == SubSeq(pk.out, 1, read_count)
            c == compute(A.F, samples, spectrum)
            raw == [b \in 1 .. A.config.num_bands |->
                        compute_band_magnitude(A.band_bins, c.output, b - 1)]
            alpha == FSub(Flt(1), A.config.smoothing_factor)
            smoothed == [b \in 1 .. A.config.num_bands |->
                            FAdd(FMul(alpha, raw[b]),
                                 FMul(A.config.smoothing_factor,
                                      A.smoothed_magnitudes[b]))]
            peaks == [b \in 1 .. A.config.num_bands |->
                         PeakHold(smoothed[b], A.peak_values[b],
                                  A.config.peak_decay_rate)]
        IN  [A |-> [A EXCEPT !.S = discard(S1, read_count).S, !.F = c.F,
                             !.sample_buffer = pk.out,
                             !.magnitude_buffer = c.output,
                             !.smoothed_magnitudes = smoothed,
                             !.peak_values = peaks],
             starved |-> FALSE, magnitudes |-> smoothed, peaks |-> peaks,
             rms_level |-> FSqrt(FDiv(SumSquares(pk.out, read_count), Flt(read_count))),
             peak_level |-> SpanPeak(samples),
             raw |-> raw, read_count |-> read_count]

\* --- set_config(config)
BandsChanged(config, current) ==
    \/ config.num_bands # current.num_bands
    \/ config.min_frequency # current.min_frequency
    \/ config.max_frequency # current.max_frequency
    \/ config.logarithmic_frequency # current.logarithmic_frequency

\* set_config that resizes and recomputes whatever changed.
set_config_always(A, config, sample_rate) ==
    [A EXCEPT !.config = config,
              !.smoothed_magnitudes = [b \in 1 .. config.num_bands |-> Flt(0)],
              !.peak_values = [b \in 1 .. config.num_bands |-> Flt(0)],
              !.band_bins = recompute_band_mapping(config, A.F, sample_rate)]

set_config(A, config, sample_rate) ==
    IF BandsChanged(config, A.config)
    THEN [A EXCEPT !.config = config,
                   !.smoothed_magnitudes = Resize(A.smoothed_magnitudes, config.num_bands),
                   !.peak_values = Resize(A.peak_values, config.num_bands),
                   !.band_bins = recompute_band_mapping(config, A.F, sample_rate)]
    ELSE [A EXCEPT !.config = config]

SetAnalyzer(A) ==
    /\ analyzer_config_' = A.config
    /\ SetRB(A.S)
    /\ fft_' = A.F
    /\ sample_buffer_' = A.sample_buffer
    /\ magnitude_buffer_' = A.magnitude_buffer
    /\ smoothed_magnitudes_' = A.smoothed_magnitudes
    /\ peak_values_' = A.peak_values
    /\ band_bins_' = A.band_bins

\* --- the configurations and transforms drawn
BandFrequencies == {<<Flt(1), Flt(10)>>, <<Flt(1), Flt(100)>>, <<Flt(10), Flt(100)>>}
Factors == {Flt(0), <<1, 2>>, Flt(1)}
AnalyzerConfigs ==
    {AnalyzerConfig(nb, f[1], f[2], s, d, lg) :
        nb \in 1 .. MaxBands, f \in BandFrequencies, s \in Factors, d \in Factors,
        lg \in BOOLEAN}
AnalyzerFFTConfigs ==
    {FFTConfig(n, w, db, Flt(-80), Flt(0)) :
        n \in 0 .. MaxFftSize, w \in {"Rectangular", "Hann"}, db \in BOOLEAN}
\* Spectra whose outputs are 0, 1 or 2 in either magnitude mode.
AnalyzerSpectra(F) ==
    {[i \in 1 .. bin_count(F) |-> m] : m \in {Flt(0), Flt(fft_size(F))}}
        \cup {[i \in 1 .. bin_count(F) |-> IF i % 2 = 1 THEN Flt(fft_size(F)) ELSE Flt(0)]}

\* --------------------------------------------- the analyzer, call by call
\* SpectrumAnalyzer(audio_config, fft_config, analyzer_config), the capture's
\* device found and opened.
SpectrumAnalyzerCtor(n, sample_rate, fft_config, config) ==
    LET F == FFTProcessorCtor(fft_config)
    IN  /\ ctor = "new" /\ audio_.state = "none" /\ fft_.state = "none"
        /\ IF F.state = "constructed"
           THEN /\ RingBufferMembers(n)
                /\ audio_' = AudioCaptureCtor(sample_rate)
                /\ stream_' = Pa_OpenStream(stream_)
                /\ fft_' = F
                /\ analyzer_config_' = config
                /\ sample_buffer_' = [i \in 1 .. fft_size(F) |-> 0]
                /\ magnitude_buffer_' = [i \in 1 .. bin_count(F) |-> Flt(0)]
                /\ smoothed_magnitudes_' = Resize(<<>>, config.num_bands)
                /\ peak_values_' = Resize(<<>>, config.num_bands)
                /\ band_bins_' = recompute_band_mapping(config, F, sample_rate)
                /\ result' = [NoResult EXCEPT !.op = "SpectrumAnalyzer"]
           ELSE /\ result' = [NoResult EXCEPT !.op = "SpectrumAnalyzer", !.error = F.state]
                /\ UNCHANGED <<ctorVars, rbVars, fft_, audio_, stream_, analyzerVars>>
        /\ UNCHANGED <<pushed, popped, value, last, threadVars, guard_>>

\* The backend delivers buffer_frames * channels samples per callback, here
\* MaxBatch, and reports no overflow of its own.
SA_Callback == CallbackWith(NextSpan(MaxBatch), FALSE)

\* SpectrumAnalyzer::start(), called once.
SA_Start == \E ok \in BOOLEAN : stream_.starts = 0 /\ StartWith(ok)

SA_Idle ==
    /\ fft_.state = "constructed" /\ audio_.state = "constructed"
    /\ audio_.pc = "idle" /\ ~stream_.in_callback

SA_Update ==
    \E spectrum \in AnalyzerSpectra(fft_) :
        /\ SA_Idle /\ result.frame < MaxFrames
        /\ LET u == update(Analyzer, spectrum)
           IN  /\ SetAnalyzer(u.A)
               /\ result' = [NoResult EXCEPT !.op = "update", !.frame = result.frame + 1,
                                             !.magnitudes = u.magnitudes,
                                             !.peaks = u.peaks,
                                             !.rms_level = u.rms_level,
                                             !.peak_level = u.peak_level,
                                             !.starved = u.starved,
                                             !.arg = u.raw, !.ret = u.read_count,
                                             !.changes = result.changes,
                                             !.pre = Pre]
        /\ UNCHANGED <<ctorVars, pushed, popped, value, last, threadVars, audio_, stream_>>

SetConfigTo(config) ==
    /\ SA_Idle /\ result.changes < MaxConfigChanges
    /\ SetAnalyzer(set_config(Analyzer, config, audio_.sample_rate))
    /\ result' = [NoResult EXCEPT !.op = "set_config", !.frame = result.frame,
                                  !.changes = result.changes + 1,
                                  !.arg = <<config>>, !.pre = Pre]
    /\ UNCHANGED <<ctorVars, pushed, popped, value, last, threadVars, audio_, stream_>>

\* Every accepted and refused FFT configuration, under a few displays.
DisplayConfigs ==
    {AnalyzerConfig(nb, Flt(1), Flt(10), <<1, 2>>, <<1, 2>>, lg) :
        nb \in {1, MaxBands}, lg \in BOOLEAN}
SA_Construct ==
    \E n \in {2, 4} : \E sample_rate \in CaptureRates :
        \E fft_config \in AnalyzerFFTConfigs : \E config \in DisplayConfigs :
            SpectrumAnalyzerCtor(n, sample_rate, fft_config, config)

NextAnalyzer == SA_Construct \/ SA_Start \/ SA_Callback \/ SA_Update
SpecAnalyzer == InitCommon /\ [][NextAnalyzer]_vars

\* Every smoothing factor and decay rate, under three transforms; the
\* transform of size 1 has one bin, so that a second band has none.
PeakFFTConfigs ==
    {FFTConfig(n, "Rectangular", FALSE, Flt(-80), Flt(0)) : n \in {1, 2, 4}}
PeakConfigs ==
    {AnalyzerConfig(nb, Flt(1), Flt(10), s, d, FALSE) :
        nb \in 1 .. MaxBands, s \in Factors, d \in Factors}
SA_ConstructPeaks ==
    \E sample_rate \in CaptureRates :
        \E fft_config \in PeakFFTConfigs : \E config \in PeakConfigs :
            SpectrumAnalyzerCtor(4, sample_rate, fft_config, config)

NextPeaks == SA_ConstructPeaks \/ SA_Start \/ SA_Callback \/ SA_Update
SpecPeaks == InitCommon /\ [][NextPeaks]_vars

\* Frames on fewer samples than a quarter of the transform's size: a
\* transform of 8 samples, fed by callbacks of 1 .. MaxBatch samples.
StarveFFTConfigs == {FFTConfig(8, "Rectangular", FALSE, Flt(-80), Flt(0))}
StarveConfigs ==
    {AnalyzerConfig(nb, Flt(1), Flt(10), <<1, 2>>, d, FALSE) :
        nb \in {1, MaxBands}, d \in {<<1, 2>>, Flt(1)}}
SA_ConstructStarve ==
    \E sample_rate \in CaptureRates :
        \E fft_config \in StarveFFTConfigs : \E config \in StarveConfigs :
            SpectrumAnalyzerCtor(8, sample_rate, fft_config, config)
SA_CallbackAny == \E samples \in Batches : CallbackWith(samples, FALSE)

NextStarve == SA_ConstructStarve \/ SA_Start \/ SA_CallbackAny \/ SA_Update
SpecStarve == InitCommon /\ [][NextStarve]_vars

\* Changes of configuration, under one transform.
ConfigFFTConfigs == {FFTConfig(2, "Rectangular", FALSE, Flt(-80), Flt(0))}
\* One configuration and those that differ from it in one field.
BaseConfig == AnalyzerConfig(MaxBands, Flt(1), Flt(10), <<1, 2>>, <<1, 2>>, FALSE)
ConfigChoices ==
    {BaseConfig,
     [BaseConfig EXCEPT !.num_bands = 1],
     [BaseConfig EXCEPT !.min_frequency = Flt(10)],
     [BaseConfig EXCEPT !.max_frequency = Flt(100)],
     [BaseConfig EXCEPT !.smoothing_factor = Flt(0)],
     [BaseConfig EXCEPT !.peak_decay_rate = Flt(1)],
     [BaseConfig EXCEPT !.logarithmic_frequency = TRUE]}
\* The configurations an analyzer is constructed with.
InitialConfigs == {BaseConfig, [BaseConfig EXCEPT !.smoothing_factor = Flt(0)]}
SA_ConstructConfig ==
    \E sample_rate \in CaptureRates :
        \E fft_config \in ConfigFFTConfigs : \E config \in InitialConfigs :
            SpectrumAnalyzerCtor(2, sample_rate, fft_config, config)
SA_SetConfig == \E config \in ConfigChoices : SetConfigTo(config)

NextConfig ==
    SA_ConstructConfig \/ SA_Start \/ SA_Callback \/ SA_Update \/ SA_SetConfig
SpecConfig == InitCommon /\ [][NextConfig]_vars

\* Changes of the number of bands and of the frequency scale, under a
\* transform of 8 samples, which update() can be starved of.
BandConfigs ==
    {[BaseConfig EXCEPT !.num_bands = nb, !.logarithmic_frequency = lg] :
        nb \in {1, MaxBands}, lg \in BOOLEAN}
SA_ConstructBands ==
    \E sample_rate \in CaptureRates :
        \E fft_config \in StarveFFTConfigs : \E config \in BandConfigs :
            SpectrumAnalyzerCtor(8, sample_rate, fft_config, config)
SA_SetBands == \E config \in BandConfigs : SetConfigTo(config)
\* One frame fewer than elsewhere.
SA_UpdateBands == result.frame < MaxFrames - 1 /\ SA_Update

NextBands ==
    SA_ConstructBands \/ SA_Start \/ SA_Callback \/ SA_UpdateBands \/ SA_SetBands
SpecBands == InitCommon /\ [][NextBands]_vars

\* ------------------------------------------------------ compute_log_bands
\* The most bins of a transform handed to compute_log_bands.
MaxBins == 3
\* What static_cast<std::size_t> of freq * fft_size / sample_rate can give:
\* bins below, at and above bin_count, and the top of std::size_t.
RawBins == {0, 1, MaxBins - 1, MaxBins, SizeMod - 1}

\* std::clamp(bin, std::size_t{0}, bin_count - 1)
ClampBin(bin, n_bins) == IF bin > n_bins - 1 THEN n_bins - 1 ELSE bin

\* One pass of the loop with bin_hi left as freq_to_bin returned it.
LogBand_asis(raw_lo, raw_hi, n_bins) ==
    <<ClampBin(raw_lo, n_bins), Min(ClampBin(raw_hi, n_bins), n_bins)>>

\* One pass of the loop of compute_log_bands, from the bins the two casts
\* gave: the clamps, the raise of bin_hi above bin_lo, the cap at bin_count.
LogBand(raw_lo, raw_hi, n_bins) ==
    LET bin_lo == ClampBin(raw_lo, n_bins)
        bin_hi0 == ClampBin(raw_hi, n_bins)
        bin_hi == IF bin_hi0 <= bin_lo THEN bin_lo + 1 ELSE bin_hi0
    IN  <<bin_lo, Min(bin_hi, n_bins)>>

LB_Unchanged ==
    UNCHANGED <<ctorVars, rbVars, pushed, popped, value, last, threadVars,
                fft_, audio_, stream_, analyzerVars>>

\* compute_log_bands is a free function: each run is one call. Here the casts
\* give any bins; no pass of the loop reads what another wrote, so one and
\* two bars are drawn.
LB_FromBins ==
    \E n_bins \in 1 .. MaxBins : \E num_bars \in {1, 2} :
    \E raw \in [1 .. num_bars -> RawBins \X RawBins] :
        /\ result.op = "none"
        /\ result' = [NoResult EXCEPT
                        !.op = "compute_log_bands",
                        !.arg = <<n_bins, num_bars>>,
                        !.samples = raw,
                        !.output = [b \in 1 .. num_bars |->
                                        LogBand(raw[b][1], raw[b][2], n_bins)]]
        /\ LB_Unchanged

\* compute_log_bands on frequencies that are powers of ten.
LB_FromFrequencies ==
    \E n_bins \in 1 .. MaxBins : \E num_bars \in 1 .. MaxBands :
    \E min_freq \in {Flt(1), Flt(10)} : \E max_freq \in {Flt(10), Flt(100)} :
    \E sample_rate \in {8, 48} :
        /\ result.op = "none"
        /\ result' = [NoResult EXCEPT
                        !.op = "compute_log_bands",
                        !.arg = <<n_bins, num_bars, min_freq, max_freq, sample_rate>>,
                        !.output = compute_log_bands(n_bins, num_bars, min_freq, max_freq,
                                                     sample_rate, 2 * (n_bins - 1))]
        /\ LB_Unchanged

NextLogBands == LB_FromBins \/ LB_FromFrequencies
SpecLogBands == InitCommon /\ [][NextLogBands]_vars

\* -------------------------------------------------- FFTProcessor::set_config
\* compute_window() on a window_ vector as it stands: the fill covers the
\* vector, the loops write its first fft_size entries.
compute_window_on(window_, config) ==
    [i \in 1 .. Len(window_) |->
        IF config.window = "Rectangular" \/ i <= config.fft_size
        THEN window_coeff(config.window, i - 1, config.fft_size)
        ELSE window_[i]]

\* set_config that allocates on every call.
fft_set_config_always(F, config) ==
    IF ~PlanCreated(config.fft_size)
    THEN [F |-> [F EXCEPT !.config_ = config, !.plan = FALSE, !.input = <<>>],
          error |-> "runtime_error"]
    ELSE [F |-> [F EXCEPT !.config_ = config, !.plan = TRUE,
                          !.input = [i \in 1 .. config.fft_size |-> NaN],
                          !.window_ = compute_window(config)],
          error |-> "none"]

\* FFTProcessor::set_config(config): config_ is assigned before anything
\* else; allocate_buffers() when fft_size changed, which releases the old
\* buffers and plan and throws std::runtime_error without a new plan, leaving
\* window_ as it was; then compute_window().
fft_set_config(F, config) ==
    LET size_changed == config.fft_size # F.config_.fft_size
    IN  IF size_changed /\ ~PlanCreated(config.fft_size)
        THEN [F |-> [F EXCEPT !.config_ = config, !.plan = FALSE, !.input = <<>>],
              error |-> "runtime_error"]
        ELSE LET window_ == IF size_changed THEN Resize(F.window_, config.fft_size)
                            ELSE F.window_
             IN  [F |-> [F EXCEPT !.config_ = config,
                                  !.plan = IF size_changed THEN TRUE ELSE @,
                                  !.input = IF size_changed
                                            THEN [i \in 1 .. config.fft_size |-> NaN]
                                            ELSE @,
                                  !.window_ = compute_window_on(window_, config)],
                  error |-> "none"]

\* The configurations of the set_config runs: every size, three windows.
FftSetConfigs ==
    {FFTConfig(n, w, FALSE, Flt(-80), Flt(0)) :
        n \in 0 .. MaxFftSize, w \in {"Rectangular", "Hann", "Blackman"}}

FC_Unchanged ==
    UNCHANGED <<ctorVars, rbVars, pushed, popped, value, last, threadVars,
                audio_, stream_, analyzerVars>>

FC_Construct ==
    \E config \in FftSetConfigs :
        /\ fft_.state = "none"
        /\ fft_' = FFTProcessorCtor(config)
        /\ result' = [NoResult EXCEPT !.op = "FFTProcessor",
                                      !.error = IF fft_'.state = "constructed"
                                                THEN "none" ELSE fft_'.state]
        /\ FC_Unchanged

\* One compute of a full window after the construction, so that the input
\* buffer holds samples.
FC_Compute ==
    \E spectrum \in AnalyzerSpectra(fft_) :
        /\ fft_.state = "constructed" /\ result.op = "FFTProcessor"
        /\ LET samples == [j \in 1 .. fft_size(fft_) |-> 1]
               c == compute(fft_, samples, spectrum)
           IN  /\ fft_' = c.F
               /\ result' = [NoResult EXCEPT !.op = "compute", !.samples = samples,
                                             !.output = c.output, !.ret = c.ret,
                                             !.in_range = c.in_range]
        /\ FC_Unchanged

\* set_config on a constructed processor; pre keeps the processor as the
\* call found it.
FC_SetConfig ==
    \E config \in FftSetConfigs :
        /\ fft_.state = "constructed" /\ result.changes < MaxConfigChanges
        /\ LET s == fft_set_config(fft_, config)
           IN  /\ fft_' = s.F
               /\ result' = [NoResult EXCEPT !.op = "fft_set_config",
                                             !.arg = <<config>>,
                                             !.error = s.error,
                                             !.changes = result.changes + 1,
                                             !.pre = fft_]
        /\ FC_Unchanged

NextFftConfig == FC_Construct \/ FC_Compute \/ FC_SetConfig
SpecFftConfig == InitCommon /\ [][NextFftConfig]_vars

\* --------------------------- process_audio and stats(), statement by statement
\* The batches the backend delivers here: one whose largest sample is
\* negative, and a quieter one.
MeterBatches == {<<-3, 1>>, <<2>>}

ST_Unchanged ==
    UNCHANGED <<ctorVars, capacity_, mask_, popped, value, last, cons, done,
                fft_, analyzerVars>>

\* AudioCapture(config) on a ring of 1 sample, the device opened.
ST_Construct ==
    \E sample_rate \in CaptureRates :
        /\ ctor = "new" /\ audio_.state = "none"
        /\ RingBufferMembers(1)
        /\ audio_' = AudioCaptureCtor(sample_rate)
        /\ stream_' = Pa_OpenStream(stream_)
        /\ result' = [NoResult EXCEPT !.op = "AudioCapture"]
        /\ UNCHANGED <<pushed, popped, value, last, threadVars, fft_, analyzerVars, guard_>>

\* start(), once, by the thread that calls stats().
ST_Start == obs.pc = "idle" /\ stream_.starts = 0 /\ StartWith(TRUE)

\* The callback enters process_audio: the overflow flag's fetch_add and the
\* loop that finds the batch's peak. out keeps peak.
ST_CbEnter ==
    \E samples \in MeterBatches : \E input_overflow \in BOOLEAN :
        /\ audio_.state = "constructed" /\ audio_.pc = "idle"
        /\ stream_.state = "active" /\ ~stream_.in_callback /\ prod.pc = "idle"
        /\ audio_.callback_count_ < MaxCallbacks - 1
        /\ stream_' = [stream_ EXCEPT !.in_callback = TRUE,
                                      !.delivered_peak = FMax(@, SpanPeak(samples))]
        /\ audio_' = [audio_ EXCEPT !.overruns_ = IF input_overflow THEN @ + 1 ELSE @]
        /\ prod' = [Enter(prod, "process_audio", "cb_peak_load") EXCEPT
                        !.data = samples, !.out = <<SpanPeak(samples)>>]
        /\ UNCHANGED <<buffer_, write_pos_, read_pos_, pushed, obs, occ, result>>
        /\ ST_Unchanged

\* float current_peak = peak_amplitude_.load(relaxed); out keeps it after peak.
ST_CbPeakLoad ==
    /\ prod.pc = "cb_peak_load"
    /\ prod' = [prod EXCEPT !.out = <<prod.out[1], audio_.peak_amplitude_>>,
                             !.pc = "cb_cas"]
    /\ UNCHANGED <<buffer_, write_pos_, read_pos_, pushed, obs, occ, result,
                   audio_, stream_>>
    /\ ST_Unchanged

\* A compare-exchange that stores whatever the stored value is.
ST_CbCas_blind ==
    /\ prod.pc = "cb_cas"
    /\ audio_' = [audio_ EXCEPT !.peak_amplitude_ = prod.out[1]]
    /\ prod' = [prod EXCEPT !.pc = "cb_push"]
    /\ UNCHANGED <<buffer_, write_pos_, read_pos_, pushed, obs, occ, result, stream_>>
    /\ ST_Unchanged

\* One test of the loop `while (peak > current_peak &&
\* !peak_amplitude_.compare_exchange_weak(current_peak, peak))`: the loop
\* ends when peak is not above current_peak or the exchange stores peak; an
\* exchange that finds another value loads it into current_peak.
ST_CbCas ==
    /\ prod.pc = "cb_cas"
    /\ IF ~FLess(prod.out[2], prod.out[1])
       THEN /\ prod' = [prod EXCEPT !.pc = "cb_push"]
            /\ UNCHANGED audio_
       ELSE IF audio_.peak_amplitude_ = prod.out[2]
       THEN /\ audio_' = [audio_ EXCEPT !.peak_amplitude_ = prod.out[1]]
            /\ prod' = [prod EXCEPT !.pc = "cb_push"]
       ELSE /\ prod' = [prod EXCEPT !.out = <<prod.out[1], audio_.peak_amplitude_>>]
            /\ UNCHANGED audio_
    /\ UNCHANGED <<buffer_, write_pos_, read_pos_, pushed, obs, occ, result, stream_>>
    /\ ST_Unchanged

\* written = ring_buffer_->try_push(samples)
ST_CbPush ==
    /\ prod.pc = "cb_push"
    /\ LET p == try_push_span(RB, prod.data)
       IN  /\ SetRB(p.S)
           /\ pushed' = pushed \o SubSeq(prod.data, 1, p.ret)
           /\ stream_' = [stream_ EXCEPT !.dropped = @ + Len(prod.data) - p.ret]
           /\ prod' = [prod EXCEPT !.ret = p.ret, !.pc = "cb_overrun"]
    /\ UNCHANGED <<obs, occ, result, audio_>>
    /\ UNCHANGED <<ctorVars, popped, value, last, cons, done, fft_, analyzerVars>>

\* if (written < samples.size()) overruns_.fetch_add(1)
ST_CbOverrun ==
    /\ prod.pc = "cb_overrun"
    /\ audio_' = [audio_ EXCEPT !.overruns_ = IF prod.ret < Len(prod.data) THEN @ + 1 ELSE @]
    /\ prod' = [prod EXCEPT !.pc = "cb_frames"]
    /\ UNCHANGED <<buffer_, write_pos_, read_pos_, pushed, obs, occ, result, stream_>>
    /\ ST_Unchanged

\* frames_captured_.fetch_add(samples.size())
ST_CbFrames ==
    /\ prod.pc = "cb_frames"
    /\ audio_' = [audio_ EXCEPT !.frames_captured_ = @ + Len(prod.data)]
    /\ prod' = [prod EXCEPT !.pc = "cb_count"]
    /\ UNCHANGED <<buffer_, write_pos_, read_pos_, pushed, obs, occ, result, stream_>>
    /\ ST_Unchanged

\* callback_count_.fetch_add(1) and the return of paContinue.
ST_CbCount ==
    /\ prod.pc = "cb_count"
    /\ audio_' = [audio_ EXCEPT !.callback_count_ = @ + 1]
    /\ stream_' = [stream_ EXCEPT !.in_callback = FALSE]
    /\ prod' = Idle
    /\ UNCHANGED <<buffer_, write_pos_, read_pos_, pushed, obs, occ, result>>
    /\ ST_Unchanged

ST_Callback ==
    \/ ST_CbEnter \/ ST_CbPeakLoad \/ ST_CbCas \/ ST_CbPush
    \/ ST_CbOverrun \/ ST_CbFrames \/ ST_CbCount

\* The four counters, in the order stats() loads them.
Counters(A) == <<A.frames_captured_, A.overruns_, A.callback_count_, A.peak_amplitude_>>

\* stats(), called twice: the load of frames_captured_. data keeps the
\* counters as the call found them, out the values loaded so far.
ST_StatsFrames ==
    /\ audio_.state = "constructed" /\ obs.pc = "idle" /\ result.frame < 2
    /\ result.op \in {"start", "stats"}
    /\ obs' = [Enter(obs, "stats", "st_overruns") EXCEPT
                    !.data = Counters(audio_), !.out = <<audio_.frames_captured_>>]
    /\ UNCHANGED <<buffer_, write_pos_, read_pos_, pushed, prod, occ, result,
                   audio_, stream_>>
    /\ ST_Unchanged

\* The loads of overruns_ and callback_count_.
ST_StatsLoad ==
    /\ obs.pc \in {"st_overruns", "st_count"}
    /\ obs' = [obs EXCEPT
                 !.out = Append(@, IF obs.pc = "st_overruns" THEN audio_.overruns_
                                   ELSE audio_.callback_count_),
                 !.pc = IF obs.pc = "st_overruns" THEN "st_count" ELSE "st_peak"]
    /\ UNCHANGED <<buffer_, write_pos_, read_pos_, pushed, prod, occ, result,
                   audio_, stream_>>
    /\ ST_Unchanged

\* The load of peak_amplitude_ and the return of the AudioStats. arg is the
\* snapshot; pre keeps the snapshot before it, the counters as the call
\* found them and as it leaves them.
ST_StatsPeak ==
    /\ obs.pc = "st_peak"
    /\ result' = [NoResult EXCEPT
                    !.op = "stats",
                    !.arg = Append(obs.out, audio_.peak_amplitude_),
                    !.frame = result.frame + 1,
                    !.pre = [previous |-> IF result.op = "stats" THEN result.arg
                                          ELSE Counters(NoAudioCapture),
                             entry |-> obs.data,
                             exit |-> Counters(audio_)]]
    /\ obs' = Idle
    /\ UNCHANGED <<buffer_, write_pos_, read_pos_, pushed, prod, occ, audio_, stream_>>
    /\ ST_Unchanged

ST_Stats == ST_StatsFrames \/ ST_StatsLoad \/ ST_StatsPeak

NextStats == ST_Construct \/ ST_Start \/ ST_Callback \/ ST_Stats
SpecStats == InitCommon /\ [][NextStats]_vars

\* ------------- process_audio, statement by statement, against a consumer
\* The callback of the statistics runs, with try_push(span) taken load by
\* load and slot by slot, while the consumer pops, peeks and discards. Only
\* the audio thread is scheduled fairly: the consumer may stop at any point.

\* try_push(span): write_pos_.load(relaxed)
PA_PushLoadW ==
    /\ prod.pc = "cb_push"
    /\ prod' = [prod EXCEPT !.w = write_pos_, !.pc = "cb_load_r"]
    /\ UNCHANGED <<buffer_, write_pos_, read_pos_, pushed, obs, occ, result,
                   audio_, stream_>>
    /\ ST_Unchanged

\* A try_push(span) that waits for room instead of writing what fits.
PA_PushLoadR_wait ==
    /\ prod.pc = "cb_load_r"
    /\ PushCount(prod.w, read_pos_, Len(prod.data)) = Len(prod.data)
    /\ prod' = [prod EXCEPT !.r = read_pos_, !.n = Len(prod.data), !.i = 0,
                    !.pc = IF 0 < Len(prod.data) THEN "cb_write" ELSE "cb_store"]
    /\ UNCHANGED <<buffer_, write_pos_, read_pos_, pushed, obs, occ, result,
                   audio_, stream_>>
    /\ ST_Unchanged

\* read_pos_.load(acquire) and to_write = min(data.size(), available)
PA_PushLoadR ==
    /\ prod.pc = "cb_load_r"
    /\ LET to_write == PushCount(prod.w, read_pos_, Len(prod.data))
       IN  prod' = [prod EXCEPT !.r = read_pos_, !.n = to_write, !.i = 0,
                        !.pc = IF 0 < to_write THEN "cb_write" ELSE "cb_store"]
    /\ UNCHANGED <<buffer_, write_pos_, read_pos_, pushed, obs, occ, result,
                   audio_, stream_>>
    /\ ST_Unchanged

\* buffer_[(write + i) & mask_] = data[i], one turn of the loop
PA_PushWrite ==
    /\ prod.pc = "cb_write"
    /\ buffer_' = [buffer_ EXCEPT ![Slot(UAdd(prod.w, prod.i))] = prod.data[prod.i + 1]]
    /\ prod' = [prod EXCEPT !.i = prod.i + 1,
                    !.pc = IF prod.i + 1 < prod.n THEN "cb_write" ELSE "cb_store"]
    /\ UNCHANGED <<write_pos_, read_pos_, pushed, obs, occ, result, audio_, stream_>>
    /\ ST_Unchanged

\* write_pos_.store(write + to_write, release); return to_write
PA_PushStore ==
    /\ prod.pc = "cb_store"
    /\ write_pos_' = UAdd(prod.w, prod.n)
    /\ pushed' = pushed \o SubSeq(prod.data, 1, prod.n)
    /\ stream_' = [stream_ EXCEPT !.dropped = @ + Len(prod.data) - prod.n]
    /\ prod' = [prod EXCEPT !.ret = prod.n, !.pc = "cb_overrun"]
    /\ UNCHANGED <<buffer_, read_pos_, obs, occ, result, audio_>>
    /\ ST_Unchanged

\* The statements of process_audio after the callback has been entered.
PA_Run ==
    \/ ST_CbPeakLoad \/ ST_CbCas
    \/ PA_PushLoadW \/ PA_PushLoadR \/ PA_PushWrite \/ PA_PushStore
    \/ ST_CbOverrun \/ ST_CbFrames \/ ST_CbCount

\* The consumer's calls on the ring, each one load or one slot at a time:
\* try_pop(T&), and peek and discard of one sample.
PA_Consumer ==
    /\ audio_.state = "constructed"
    /\ \/ C_Pop
       \/ \E op \in {"peek", "discard"} : C_BulkLoadR(op, 1)
       \/ C_BulkLoadW \/ C_BulkRead \/ C_BulkStore

NextWaitFree == ST_Construct \/ ST_Start \/ ST_CbEnter \/ PA_Run \/ PA_Consumer
SpecWaitFree == InitCommon /\ [][NextWaitFree]_vars /\ WF_vars(PA_Run)

\* --------- one producer pushing, one consumer popping, peeking, discarding
\* try_push of one value and of a span against try_pop of one value and of
\* a span, peek and discard, every load, slot copy and store a step.
NextSlots ==
    \/ ConstructConc
    \/ P_Push \/ P_PushSpan
    \/ C_Pop \/ C_Bulk
SpecSlots == InitCommon /\ [][NextSlots]_vars

\* ------------------------- capture and analysis, both called without end
\* An analyzer of one band on a transform of 8 samples, on the two smallest
\* rings an AudioConfig can give: ring_buffer_seconds * sample_rate *
\* channels samples, rounded up to a power of two by RingBuffer.
PR_Construct ==
    \E n \in {1, 2} : \E sample_rate \in CaptureRates :
        \E fft_config \in StarveFFTConfigs :
            SpectrumAnalyzerCtor(n, sample_rate, fft_config,
                                 AnalyzerConfig(1, Flt(1), Flt(10), <<1, 2>>, <<1, 2>>, FALSE))

\* The three statistics are unsigned counters, which wrap: here at the width
\* of the model's std::size_t.
CounterWrap(A) ==
    [A EXCEPT !.frames_captured_ = @ % SizeMod, !.overruns_ = @ % SizeMod,
              !.callback_count_ = @ % SizeMod]

\* The callback with a batch of one sample, any number of times: on a ring
\* that is not full while write_pos_ is below MaxCallbacks, on a full ring
\* always.
PR_Callback ==
    /\ AC_Idle /\ stream_.state = "active"
    /\ full \/ write_pos_ < MaxCallbacks
    /\ LET samples == NextSpan(1)
           p == process_audio(audio_, RB, samples, FALSE)
       IN  /\ audio_' = CounterWrap(p.A)
           /\ SetRB(p.S)
           /\ pushed' = pushed \o SubSeq(samples, 1, p.written)
           /\ stream_' = [stream_ EXCEPT
                            !.dropped = (@ + Len(samples) - p.written) % SizeMod]
           /\ result' = [NoResult EXCEPT !.op = "process_audio", !.samples = samples,
                                         !.arg = <<FALSE>>,
                                         !.ret = p.written,
                                         !.frame = result.frame,
                                         !.changes = result.changes, !.pre = Pre]
    /\ UNCHANGED <<ctorVars, popped, value, last, threadVars, fft_, analyzerVars>>

\* update() can be called: any number of times while it is starved, and
\* while fewer than MaxFrames - 1 frames have been analysed otherwise.
UpdateReady ==
    /\ SA_Idle
    /\ result.frame < MaxFrames - 1 \/ Starved(size, fft_size(fft_))

\* update(); frame counts the frames that were analysed.
PR_Update ==
    \E spectrum \in AnalyzerSpectra(fft_) :
        /\ UpdateReady
        /\ LET u == update(Analyzer, spectrum)
           IN  /\ SetAnalyzer(u.A)
               /\ result' = [NoResult EXCEPT !.op = "update",
                                             !.frame = IF u.starved THEN result.frame
                                                       ELSE result.frame + 1,
                                             !.magnitudes = u.magnitudes,
                                             !.peaks = u.peaks,
                                             !.rms_level = u.rms_level,
                                             !.peak_level = u.peak_level,
                                             !.starved = u.starved,
                                             !.arg = u.raw, !.ret = u.read_count,
                                             !.changes = result.changes,
                                             !.pre = Pre]
        /\ UNCHANGED <<ctorVars, pushed, popped, value, last, threadVars, audio_, stream_>>

NextProgress == PR_Construct \/ SA_Start \/ PR_Callback \/ PR_Update
\* The backend keeps calling the callback and the render loop keeps calling
\* update(): weak fairness of the callback, and update() returning again
\* and again for as long as it can be called.
SpecProgress ==
    /\ InitCommon /\ [][NextProgress]_vars
    /\ WF_vars(PR_Callback)
    /\ ([]<>~UpdateReady \/ []<><<PR_Update>>_vars)

\* ----------------- update(), statement by statement, with the audio thread
\* The callback, as the audio thread runs it against update(): the peak
\* metering, the loads, slot writes and store of try_push(span), then the
\* statistics.
CB_Enter ==
    /\ SA_Idle /\ stream_.state = "active" /\ prod.pc = "idle"
    /\ audio_.callback_count_ < MaxCallbacks
    /\ stream_' = [stream_ EXCEPT !.in_callback = TRUE]
    /\ audio_' = [audio_ EXCEPT
                    !.peak_amplitude_ =
                        LET peak == SpanPeak(NextSpan(MaxBatch))
                        IN  IF FLess(@, peak) THEN peak ELSE @]
    /\ prod' = [Enter(prod, "process_audio", "cb_push") EXCEPT !.data = NextSpan(MaxBatch)]
    /\ UNCHANGED <<ctorVars, rbVars, pushed, popped, value, last, cons, obs, done,
                   fft_, analyzerVars, result>>
    /\ occ' = NewOcc

CB_PushLoadW ==
    /\ prod.pc = "cb_push"
    /\ prod' = [Enter(prod, "try_push_span", "pspan_load_r") EXCEPT
                    !.data = prod.data, !.w = write_pos_]
    /\ UNCHANGED <<ctorVars, rbVars, pushed, popped, value, last, cons, obs, done, appVars>>
    /\ occ' = NewOcc

CB_Return ==
    /\ stream_.in_callback /\ prod.pc = "idle" /\ prod.op = "try_push_span"
    /\ audio_' = [audio_ EXCEPT
                    !.overruns_ = IF prod.ret < MaxBatch THEN @ + 1 ELSE @,
                    !.frames_captured_ = @ + MaxBatch,
                    !.callback_count_ = @ + 1]
    /\ stream_' = [stream_ EXCEPT !.dropped = @ + MaxBatch - prod.ret,
                                  !.in_callback = FALSE]
    /\ prod' = Idle
    /\ UNCHANGED <<ctorVars, rbVars, pushed, popped, value, last, cons, obs, done,
                   fft_, analyzerVars, result>>
    /\ occ' = NewOcc

CB_Callback ==
    \/ CB_Enter \/ CB_PushLoadW
    \/ (stream_.in_callback /\ (P_SpanLoadR \/ P_SpanWrite \/ P_SpanStore))
    \/ CB_Return

\* The steps of update() that touch only the analyzer: RMS and peak level of
\* the window, the transform, the bands, smoothing and peak hold.
AnalyseWindow(A, read_count, spectrum) ==
    LET samples == SubSeq(A.sample_buffer, 1, read_count)
        c == compute(A.F, samples, spectrum)
        raw == [b \in 1 .. A.config.num_bands |->
                    compute_band_magnitude(A.band_bins, c.output, b - 1)]
        alpha == FSub(Flt(1), A.config.smoothing_factor)
        smoothed == [b \in 1 .. A.config.num_bands |->
                        FAdd(FMul(alpha, raw[b]),
                             FMul(A.config.smoothing_factor, A.smoothed_magnitudes[b]))]
        peaks == [b \in 1 .. A.config.num_bands |->
                     PeakHold(smoothed[b], A.peak_values[b], A.config.peak_decay_rate)]
    IN  [A |-> [A EXCEPT !.F = c.F, !.magnitude_buffer = c.output,
                         !.smoothed_magnitudes = smoothed, !.peak_values = peaks],
         rms_level |-> FSqrt(FDiv(SumSquares(A.sample_buffer, read_count),
                                  Flt(read_count))),
         peak_level |-> SpanPeak(samples), raw |-> raw]

UpdateUnchanged ==
    UNCHANGED <<ctorVars, capacity_, mask_, buffer_, write_pos_, pushed, popped, value,
                last, prod, obs, done, audio_, stream_>>

\* buffer.size(): the load of write_pos_ ...
U_SizeLoadW ==
    /\ fft_.state = "constructed" /\ audio_.state = "constructed"
    /\ cons.pc = "idle" /\ result.frame < MaxFrames - 1
    /\ cons' = [Enter(cons, "update", "upd_size_r") EXCEPT !.w = write_pos_]
    /\ UNCHANGED <<read_pos_, fft_, analyzerVars, result>>
    /\ UpdateUnchanged
    /\ occ' = NewOcc

\* ... the load of read_pos_, and the tests of available against needed.
\* ret keeps available and item the write position size() loaded.
U_SizeLoadR ==
    /\ cons.pc = "upd_size_r"
    /\ LET avail == USub(cons.w, read_pos_)
           needed == fft_size(fft_)
       IN  IF Starved(avail, needed)
           THEN /\ cons' = Idle
                /\ result' = [NoResult EXCEPT !.op = "update",
                                              !.frame = result.frame + 1,
                                              !.magnitudes = smoothed_magnitudes_,
                                              !.peaks = peak_values_,
                                              !.starved = TRUE,
                                              !.changes = result.changes]
           ELSE /\ cons' = [cons EXCEPT !.ret = avail, !.item = cons.w,
                                        !.pc = IF avail > needed THEN "upd_drop_r"
                                               ELSE "upd_peek_r"]
                /\ UNCHANGED result
    /\ UNCHANGED <<read_pos_, fft_, analyzerVars>>
    /\ UpdateUnchanged
    /\ occ' = NewOcc

\* buffer.discard(available - needed)
U_DropLoadR ==
    /\ cons.pc = "upd_drop_r"
    /\ cons' = [cons EXCEPT !.r = read_pos_, !.pc = "upd_drop_w"]
    /\ UNCHANGED <<read_pos_, fft_, analyzerVars, result>>
    /\ UpdateUnchanged
    /\ occ' = NewOcc

U_DropLoadW ==
    /\ cons.pc = "upd_drop_w"
    /\ cons' = [cons EXCEPT
                    !.n = PopCount(cons.r, write_pos_, cons.ret - fft_size(fft_)),
                    !.pc = "upd_drop_store"]
    /\ UNCHANGED <<read_pos_, fft_, analyzerVars, result>>
    /\ UpdateUnchanged
    /\ occ' = NewOcc

U_DropStore ==
    /\ cons.pc = "upd_drop_store"
    /\ read_pos_' = UAdd(cons.r, cons.n)
    /\ cons' = [cons EXCEPT !.pc = "upd_peek_r"]
    /\ UNCHANGED <<fft_, analyzerVars, result>>
    /\ UpdateUnchanged
    /\ occ' = NewOcc

\* buffer.peek({sample_buffer_.data(), sample_buffer_.size()}); v and w keep
\* the positions peek loaded, n is read_count.
U_PeekLoadR ==
    /\ cons.pc = "upd_peek_r"
    /\ cons' = [cons EXCEPT !.r = read_pos_, !.v = read_pos_, !.pc = "upd_peek_w"]
    /\ UNCHANGED <<read_pos_, fft_, analyzerVars, result>>
    /\ UpdateUnchanged
    /\ occ' = NewOcc

U_PeekLoadW ==
    /\ cons.pc = "upd_peek_w"
    /\ LET to_copy == PopCount(cons.r, write_pos_, Len(sample_buffer_))
       IN  cons' = [cons EXCEPT !.w = write_pos_, !.n = to_copy, !.i = 0,
                        !.pc = IF 0 < to_copy THEN "upd_peek_read" ELSE "upd_analyse"]
    /\ UNCHANGED <<read_pos_, fft_, analyzerVars, result>>
    /\ UpdateUnchanged
    /\ occ' = NewOcc

U_PeekRead ==
    /\ cons.pc = "upd_peek_read"
    /\ sample_buffer_' = [sample_buffer_ EXCEPT
                              ![cons.i + 1] = buffer_[Slot(UAdd(cons.r, cons.i))]]
    /\ cons' = [cons EXCEPT !.i = cons.i + 1,
                    !.pc = IF cons.i + 1 < cons.n THEN "upd_peek_read" ELSE "upd_analyse"]
    /\ UNCHANGED <<read_pos_, fft_, analyzer_config_, magnitude_buffer_,
                   smoothed_magnitudes_, peak_values_, band_bins_, result>>
    /\ UpdateUnchanged
    /\ occ' = NewOcc

\* RMS, peak, the transform and the bands. arg keeps available, the write
\* position size() loaded and the two positions peek loaded; the return adds
\* the write position at that moment.
U_Analyse ==
    \E spectrum \in AnalyzerSpectra(fft_) :
        /\ cons.pc = "upd_analyse"
        /\ LET a == AnalyseWindow(Analyzer, cons.n, spectrum)
           IN  /\ fft_' = a.A.F
               /\ magnitude_buffer_' = a.A.magnitude_buffer
               /\ smoothed_magnitudes_' = a.A.smoothed_magnitudes
               /\ peak_values_' = a.A.peak_values
               /\ result' = [NoResult EXCEPT !.op = "update_running",
                                             !.frame = result.frame,
                                             !.changes = result.changes,
                                             !.magnitudes = a.A.smoothed_magnitudes,
                                             !.peaks = a.A.peak_values,
                                             !.rms_level = a.rms_level,
                                             !.peak_level = a.peak_level,
                                             !.samples = SubSeq(sample_buffer_, 1, cons.n),
                                             !.arg = <<cons.ret, cons.item, cons.v, cons.w>>,
                                             !.ret = cons.n]
        /\ cons' = [cons EXCEPT !.pc = "upd_final_r"]
        /\ UNCHANGED <<read_pos_, analyzer_config_, sample_buffer_, band_bins_>>
        /\ UpdateUnchanged
        /\ occ' = NewOcc

\* The last discard taking everything the buffer holds.
U_FinalLoadW_all ==
    /\ cons.pc = "upd_final_w"
    /\ cons' = [cons EXCEPT !.n = USub(write_pos_, cons.r), !.pc = "upd_final_store"]
    /\ UNCHANGED <<read_pos_, fft_, analyzerVars, result>>
    /\ UpdateUnchanged
    /\ occ' = NewOcc

\* buffer.discard(read_count), and the return of the SpectrumData.
U_FinalLoadR ==
    /\ cons.pc = "upd_final_r"
    /\ cons' = [cons EXCEPT !.r = read_pos_, !.pc = "upd_final_w"]
    /\ UNCHANGED <<read_pos_, fft_, analyzerVars, result>>
    /\ UpdateUnchanged
    /\ occ' = NewOcc

U_FinalLoadW ==
    /\ cons.pc = "upd_final_w"
    /\ cons' = [cons EXCEPT !.n = PopCount(cons.r, write_pos_, cons.n),
                            !.pc = "upd_final_store"]
    /\ UNCHANGED <<read_pos_, fft_, analyzerVars, result>>
    /\ UpdateUnchanged
    /\ occ' = NewOcc

\* A return that leaves read_pos_ where the discard found it.
U_FinalStore_stay ==
    /\ cons.pc = "upd_final_store"
    /\ read_pos_' = cons.r
    /\ cons' = Idle
    /\ result' = [result EXCEPT !.op = "update", !.frame = result.frame + 1,
                                !.arg = Append(@, write_pos_)]
    /\ UNCHANGED <<fft_, analyzerVars>>
    /\ UpdateUnchanged
    /\ occ' = NewOcc

U_FinalStore ==
    /\ cons.pc = "upd_final_store"
    /\ read_pos_' = UAdd(cons.r, cons.n)
    /\ cons' = Idle
    /\ result' = [result EXCEPT !.op = "update", !.frame = result.frame + 1,
                                !.arg = Append(@, write_pos_)]
    /\ UNCHANGED <<fft_, analyzerVars>>
    /\ UpdateUnchanged
    /\ occ' = NewOcc

U_Update ==
    \/ U_SizeLoadW \/ U_SizeLoadR
    \/ U_DropLoadR \/ U_DropLoadW \/ U_DropStore
    \/ U_PeekLoadR \/ U_PeekLoadW \/ U_PeekRead
    \/ U_Analyse
    \/ U_FinalLoadR \/ U_FinalLoadW \/ U_FinalStore

\* One band over a transform of 2 samples, on a ring of 4.
SA_ConstructUpdate ==
    \E sample_rate \in CaptureRates : \E fft_config \in ConfigFFTConfigs :
        SpectrumAnalyzerCtor(4, sample_rate, fft_config,
                             [BaseConfig EXCEPT !.num_bands = 1])

\* start() is called by the thread that calls update(), so never while an
\* update() is running.
U_Start == cons.pc = "idle" /\ SA_Start

NextUpdateConc == SA_ConstructUpdate \/ U_Start \/ CB_Callback \/ U_Update
SpecUpdateConc == InitCommon /\ [][NextUpdateConc]_vars

\* =====================================================================
\* Properties
\* =====================================================================
IsPrefix(a, b) == Len(a) <= Len(b) /\ SubSeq(b, 1, Len(a)) = a
Pow2s == {2 ^ e : e \in 0 .. SizeBits}
SmallestPow2AtLeast(m) ==
    CHOOSE c \in Pow2s : c >= m /\ \A d \in Pow2s : d >= m => c <= d
Max(a, b) == IF a > b THEN a ELSE b

\* The elements of S between read_pos and write_pos, oldest first, indexed
\* by position modulo the capacity.
ContentsOf(S) ==
    [i \in 1 .. (S.write_pos - S.read_pos) |-> S.buffer[(S.read_pos + i - 1) % capacity_]]
Contents == ContentsOf(RB)

\* C1 FIFO: at every moment of a run of try_push (single, bulk) and try_pop
\* (single, bulk) calls, the values the pops have returned are a prefix of
\* the values the pushes have accepted.
C1_FifoPrefix == IsPrefix(popped, pushed)

\* C1 witness: capacity 2, six values pushed and popped in order, so the
\* slot index has wrapped around the two-slot array three times.
C1_Witness ==
    /\ capacity_ = 2
    /\ popped = <<1, 2, 3, 4, 5, 6>>
    /\ last.op \in {"try_pop", "try_pop_span"}

C4_Fullness ==
    [][last'.op = "try_push" =>
        /\ (~last'.ok) <=> (size = capacity_)
        /\ (~last'.ok) => UNCHANGED <<write_pos_, read_pos_, buffer_>>
        /\ last'.ok => size' = size + 1]_vars

\* C4 witness: a push was refused on a full buffer whose write index has
\* already wrapped.
C4_Witness ==
    /\ last.op = "try_push" /\ ~last.ok
    /\ size = capacity_
    /\ write_pos_ > capacity_

\* C5 Emptiness: a try_pop(out) call returns false iff size() == 0 when it
\* is called; returning false it changes neither out nor a counter,
\* returning true out holds the element at read_pos & mask and read_pos has
\* advanced by one.
C5_Emptiness ==
    [][last'.op = "try_pop" =>
        /\ (~last'.ok) <=> (size = 0)
        /\ (~last'.ok) => UNCHANGED <<value, write_pos_, read_pos_, buffer_>>
        /\ last'.ok =>
            /\ value' = buffer_[BitAnd(read_pos_, mask_)]
            /\ value' = Head(Contents)
            /\ read_pos_' = read_pos_ + 1
            /\ UNCHANGED <<write_pos_, buffer_>>]_vars

\* C5 witness: a pop was refused on an empty buffer and the caller's
\* variable still holds the third sample, popped before.
C5_Witness ==
    /\ last.op = "try_pop" /\ ~last.ok
    /\ size = 0
    /\ value = 3

\* C6 Peek/discard equivalence: a peek changes no counter and no slot; and a
\* discard(k) that follows a peek into a span of length k returns the same
\* count, the peek has delivered the same values, and the buffer is left
\* in the same state, as try_pop into a span of length k from that state.
C6_PeekDiscard ==
    [][/\ last'.op = "peek" =>
            /\ UNCHANGED <<write_pos_, read_pos_, buffer_>>
            /\ size' = size
       /\ (last'.op = "discard" /\ last'.after_peek) =>
            LET t == try_pop_span(RB, Zeros(last'.val))
            IN  /\ last.n = t.ret
                /\ last'.n = t.ret
                /\ last.out = t.out
                /\ RB' = t.S]_vars

\* C6 witness: peek(2) then discard(2) took two elements that lie across
\* the end of a two-slot array.
C6_Witness ==
    /\ last.op = "discard" /\ last.after_peek
    /\ last.n = 2
    /\ capacity_ = 2
    /\ read_pos_ = 5

LastN(seq, n) == SubSeq(seq, Len(seq) - n + 1, Len(seq))

\* C7 Overwrite, with calls one at a time: the buffer always holds the most
\* recent size() values written, oldest first, and never more than
\* capacity(); as long as nothing was popped, once capacity() values were
\* written size() is capacity(); push_overwrite on a full buffer keeps
\* size() and drops exactly the oldest value; on a non-full buffer it does
\* what a successful try_push does; and a pop returns the oldest value held.
C7_Overwrite ==
    /\ [](ctor = "constructed" =>
            /\ size <= capacity_
            /\ Contents = LastN(pushed, size)
            /\ (popped = <<>> => size = Min(Len(pushed), capacity_)))
    /\ [][/\ last'.op = "push_overwrite" =>
            /\ size = capacity_ =>
                /\ size' = capacity_
                /\ ContentsOf(RB') = Append(Tail(Contents), last'.val)
                /\ last'.ok
            /\ size < capacity_ =>
                /\ try_push(RB, last'.val).ret
                /\ RB' = try_push(RB, last'.val).S
                /\ ~last'.ok
       /\ (last'.op = "try_pop" /\ last'.ok) => value' = Head(Contents)]_vars

\* C7 witness: capacity 2 was filled with 1, 2, then 3 and 4 were written
\* by push_overwrite, and the pops returned 3, 4.
C7_Witness ==
    /\ capacity_ = 2
    /\ pushed = <<1, 2, 3, 4>>
    /\ popped = <<3, 4>>
    /\ read_pos_ = 4

RECURSIVE RepeatPush(_, _, _)
RepeatPush(S, data, i) ==
    IF i > Len(data) THEN [S |-> S, n |-> i - 1]
    ELSE LET t == try_push(S, data[i])
         IN  IF t.ret THEN RepeatPush(t.S, data, i + 1) ELSE [S |-> S, n |-> i - 1]

RECURSIVE RepeatPop(_, _, _)
RepeatPop(S, out, i) ==
    IF i > Len(out) THEN [S |-> S, n |-> i - 1, out |-> out]
    ELSE LET t == try_pop(S, out[i])
         IN  IF t.ret THEN RepeatPop(t.S, [out EXCEPT ![i] = t.out], i + 1)
             ELSE [S |-> S, n |-> i - 1, out |-> out]

\* C8 Bulk operations: try_push(span of length L) accepts min(L, capacity -
\* size) elements, the first of the span in order, and returns that count;
\* try_pop(span of length L) returns min(L, size) elements, the oldest in
\* order; each has the result and final state of the single-element
\* operation repeated until the span is exhausted or it first fails.
C8_Bulk ==
    [][/\ last'.op = "try_push_span" =>
            LET data == last'.data
                rep == RepeatPush(RB, data, 1)
            IN  /\ last'.n = Min(Len(data), capacity_ - size)
                /\ ContentsOf(RB') = Contents \o SubSeq(data, 1, last'.n)
                /\ last'.n = rep.n
                /\ RB' = rep.S
       /\ last'.op = "try_pop_span" =>
            LET rep == RepeatPop(RB, Zeros(last'.val), 1)
            IN  /\ last'.n = Min(last'.val, size)
                /\ SubSeq(last'.out, 1, last'.n) = SubSeq(Contents, 1, last'.n)
                /\ ContentsOf(RB') = SubSeq(Contents, last'.n + 1, size)
                /\ last'.n = rep.n
                /\ last'.out = rep.out
                /\ RB' = rep.S]_vars

\* C8 witness: a bulk push of two samples into a buffer with one free slot
\* accepted one, after the write index had wrapped.
C8_Witness ==
    /\ last.op = "try_push_span"
    /\ Len(last.data) = 2 /\ last.n = 1
    /\ write_pos_ > capacity_

\* C2 Concurrent SPSC run: in the stress test, under every interleaving of
\* the loads, slot accesses and stores of the two threads, the received
\* values are at every moment a prefix of the pushed ones, which are a
\* prefix of the items; when the consumer has left its loop it has received
\* every item once, in order; and with both threads scheduled again and
\* again the run ends with both threads finished.
C2_Stress ==
    /\ [](IsPrefix(popped, pushed) /\ IsPrefix(pushed, Items))
    /\ [](cons.pc = "c_done" => popped = Items)
    /\ <>(prod.pc = "p_done" /\ cons.pc = "c_done")

\* C2 witness: the run has ended with every item received through a buffer
\* of one slot, which the producer found full and the consumer found empty.
C2_Witness ==
    /\ capacity_ = 1
    /\ prod.pc = "p_done" /\ cons.pc = "c_done"
    /\ popped = Items

\* C9 as claimed: a size() call that has returned to the producer, the
\* consumer or the observer returned a value in [0, capacity] that was the
\* occupancy write_pos - read_pos at some instant of the call; an
\* available() call returned a value in [0, capacity].
C9_Original ==
    \A t \in Threads :
        (ThOf(t).pc = "idle" /\ ThOf(t).op \in {"size", "available"}) =>
            /\ ThOf(t).ret \in 0 .. capacity_
            /\ ThOf(t).op = "size" => ThOf(t).ret \in occ[t]

\* The same for the two threads that own a counter.
C9_OwnerThreads ==
    \A t \in {"prod", "cons"} :
        (ThOf(t).pc = "idle" /\ ThOf(t).op \in {"size", "available"}) =>
            /\ ThOf(t).ret \in 0 .. capacity_
            /\ ThOf(t).op = "size" => ThOf(t).ret \in occ[t]

\* C10 clear(): the store of clear() sets read_pos to the write_pos the call
\* has loaded and leaves write_pos alone; what remains are exactly the
\* elements published since that load, in push order (none if no push was
\* published meanwhile: size() == 0, empty()); and every pop returns the
\* element pushed at the position it reads and advances read_pos by one.
C10_Clear ==
    [][/\ (cons.pc = "clear_store" /\ cons'.pc = "idle") =>
            /\ read_pos_' = cons.w
            /\ write_pos_' = write_pos_
            /\ ContentsOf(RB') = SubSeq(pushed, cons.w + 1, write_pos_)
            /\ (write_pos_ = cons.w) => (size' = 0 /\ empty')
       /\ (cons.pc = "pop_read" /\ cons'.pc = "pop_store") =>
            /\ cons.r = read_pos_
            /\ value' = pushed[cons.r + 1]
       /\ (cons.pc = "pop_store" /\ cons'.pc = "idle") =>
            read_pos_' = read_pos_ + 1]_vars

\* C10 witness: clear() has loaded write_pos with elements in the buffer,
\* the producer has published another element since, and clear's store is
\* the consumer's next step.
C10_Witness ==
    /\ cons.pc = "clear_store"
    /\ read_pos_ < cons.w
    /\ cons.w < write_pos_

\* C11 (as stated): for every FFTConfig the constructor accepts, update() on
\* an empty ring buffer returns the stored smoothed_magnitudes and peak_values
\* as magnitudes and peaks, rms_level = peak_level = 0, and returns before
\* the FFT is run.
EmptyUpdate == result.op = "update" /\ result.pre.size = 0
StarvationHold ==
    /\ result.starved
    /\ result.magnitudes = result.pre.smoothed_magnitudes
    /\ result.peaks = result.pre.peak_values
    /\ result.rms_level = FSqrt(Flt(0)) /\ result.peak_level = Flt(0)
    /\ smoothed_magnitudes_ = result.pre.smoothed_magnitudes
    /\ peak_values_ = result.pre.peak_values
    /\ fft_ = result.pre.fft
C11_Original == EmptyUpdate => StarvationHold
\* C11, for the sizes it holds for: with fft_size >= 4 an update() on an
\* empty ring buffer is a starvation hold.
C11_FromSizeFour == (EmptyUpdate /\ fft_size(fft_) >= 4) => StarvationHold

FullFrame == result.op = "update" /\ result.pre.size >= fft_size(result.pre.fft) \div 4
\* The sum of a sequence of floats.
RECURSIVE SeqSum(_)
SeqSum(seq) == IF seq = <<>> THEN Flt(0) ELSE FAdd(Head(seq), SeqSum(Tail(seq)))
\* The mean of magnitude_buffer_ over band b's bins [bin_lo, bin_hi), 0 for
\* an empty range.
BandMean(b) ==
    LET bin_lo == band_bins_[b][1]
        bin_hi == band_bins_[b][2]
    IN  IF bin_lo >= bin_hi THEN Flt(0)
        ELSE FDiv(SeqSum(SubSeq(magnitude_buffer_, bin_lo + 1, bin_hi)),
                  Flt(bin_hi - bin_lo))
\* (1 - s) * raw + s * old
Smoothed(raw, old, s) == FAdd(FMul(FSub(Flt(1), s), raw), FMul(s, old))

\* C27: after an update() that was not starved, for every band b, with raw
\* the mean of magnitude_buffer_ over the band's bins: smoothed_magnitudes_[b]
\* is (1 - s) * raw + s * its old value; peak_values_[b] is that new value if
\* it is strictly greater than the old peak and the old peak times
\* peak_decay_rate otherwise; the returned magnitudes and peaks are the
\* stored ones; with s = 0 the smoothed value is raw.
C27_BandUpdate ==
    FullFrame =>
        /\ Len(result.magnitudes) = analyzer_config_.num_bands
        /\ Len(result.peaks) = analyzer_config_.num_bands
        /\ \A b \in 1 .. analyzer_config_.num_bands :
            LET s == analyzer_config_.smoothing_factor
                old == result.pre.smoothed_magnitudes[b]
                old_peak == result.pre.peak_values[b]
            IN  /\ smoothed_magnitudes_[b] = Smoothed(BandMean(b), old, s)
                /\ FLess(old_peak, smoothed_magnitudes_[b])
                      => peak_values_[b] = smoothed_magnitudes_[b]
                /\ ~FLess(old_peak, smoothed_magnitudes_[b])
                      => peak_values_[b]
                            = FMul(old_peak, analyzer_config_.peak_decay_rate)
                /\ result.magnitudes[b] = smoothed_magnitudes_[b]
                /\ result.peaks[b] = peak_values_[b]
                /\ s = Flt(0) => smoothed_magnitudes_[b] = BandMean(b)
\* A frame with smoothing 1/2 in which a band with a history above zero and
\* a raw magnitude above zero reaches its old peak exactly, and so decays.
C27_Witness ==
    /\ FullFrame /\ analyzer_config_.smoothing_factor = <<1, 2>>
    /\ \E b \in 1 .. analyzer_config_.num_bands :
        /\ FLess(Flt(0), BandMean(b))
        /\ FLess(Flt(0), result.pre.smoothed_magnitudes[b])
        /\ smoothed_magnitudes_[b] = result.pre.peak_values[b]
        /\ peak_values_[b] # smoothed_magnitudes_[b]
\* A frame on a band with no bins: its raw magnitude is 0.
C27_WitnessEmptyBand ==
    /\ FullFrame
    /\ \E b \in 1 .. analyzer_config_.num_bands :
        /\ band_bins_[b][1] >= band_bins_[b][2]
        /\ result.ret > 0 /\ smoothed_magnitudes_[b] = Flt(0)

\* C12 (as stated): in an update() frame in which a band's raw magnitude is
\* zero, the band's peak becomes its previous value times peak_decay_rate:
\* it does not increase, and decreases strictly while it is above zero.
QuietBand(b) ==
    /\ result.op = "update" /\ ~result.starved
    /\ b \in DOMAIN result.arg /\ result.arg[b] = Flt(0)
C12_Original ==
    \A b \in 1 .. MaxBands :
        QuietBand(b) =>
            /\ peak_values_[b]
                  = FMul(result.pre.peak_values[b], analyzer_config_.peak_decay_rate)
            /\ FLeq(peak_values_[b], result.pre.peak_values[b])
            /\ FLess(Flt(0), result.pre.peak_values[b])
                  => FLess(peak_values_[b], result.pre.peak_values[b])
\* C12, where it holds: with smoothing_factor <= peak_decay_rate a band's
\* peak becomes its previous value times peak_decay_rate in every frame in
\* which the band's raw magnitude is zero, and with peak_decay_rate < 1 it
\* decreases strictly while it is above zero.
C12_SlowDecay ==
    \A b \in 1 .. MaxBands :
        (/\ QuietBand(b)
         /\ FLeq(analyzer_config_.smoothing_factor, analyzer_config_.peak_decay_rate)) =>
            /\ peak_values_[b]
                  = FMul(result.pre.peak_values[b], analyzer_config_.peak_decay_rate)
            /\ FLeq(peak_values_[b], result.pre.peak_values[b])
            /\ (/\ FLess(Flt(0), result.pre.peak_values[b])
                /\ FLess(analyzer_config_.peak_decay_rate, Flt(1)))
                  => FLess(peak_values_[b], result.pre.peak_values[b])

\* C13: set_config with a configuration that differs from the current one
\* in smoothing_factor or peak_decay_rate only leaves the band mapping and
\* the lengths and contents of smoothed_magnitudes and peak_values as they
\* were; no set_config changes the capture, the stream, the FFT processor or
\* the ring buffer.
Differing(a, b) == {f \in DOMAIN a : a[f] # b[f]}
C13_SetConfigFrame ==
    result.op = "set_config" =>
        /\ analyzer_config_ = result.arg[1]
        /\ fft_ = result.pre.fft
        /\ audio_ = result.pre.audio /\ stream_ = result.pre.stream
        /\ buffer_ = result.pre.buffer
        /\ write_pos_ = result.pre.write_pos /\ read_pos_ = result.pre.read_pos
        /\ Differing(result.arg[1], result.pre.config)
                \subseteq {"smoothing_factor", "peak_decay_rate"} =>
              /\ band_bins_ = result.pre.band_bins
              /\ smoothed_magnitudes_ = result.pre.smoothed_magnitudes
              /\ peak_values_ = result.pre.peak_values
\* set_config changed smoothing_factor alone on an analyzer that holds
\* samples and a peak above zero.
C13_Witness ==
    /\ result.op = "set_config"
    /\ Differing(result.arg[1], result.pre.config) = {"smoothing_factor"}
    /\ size > 0
    /\ \E b \in DOMAIN peak_values_ : FLess(Flt(0), peak_values_[b])

\* ------------------------------------------------------------ FFTProcessor
IsPow2(n) == n \in Pow2s
AllZero(samples) == \A j \in DOMAIN samples : samples[j] = 0

\* C14 (as stated): a constructor call with an fft_size that is not a power
\* of two, 0 included, ends in std::invalid_argument and leaves no
\* processor; with a power of two it leaves a processor whose bin_count()
\* is fft_size / 2 + 1.
C14_Original ==
    fft_.state # "none" =>
        LET n == fft_.config_.fft_size
        IN  /\ ~IsPow2(n) => fft_.state = "invalid_argument"
            /\ IsPow2(n) => (fft_.state = "constructed" /\ bin_count(fft_) = n \div 2 + 1)

\* What the constructor does: std::invalid_argument exactly for the sizes
\* with two or more bits set; size 0 passes that test and ends in the
\* std::runtime_error of allocate_buffers.
C14_NonZeroSizes ==
    fft_.state # "none" =>
        LET n == fft_.config_.fft_size
        IN  /\ (n # 0 /\ ~IsPow2(n)) <=> fft_.state = "invalid_argument"
            /\ IsPow2(n) <=> (fft_.state = "constructed" /\ bin_count(fft_) = n \div 2 + 1)
            /\ n = 0 <=> fft_.state = "runtime_error"

\* C15: after compute on L samples with n = fft_size, c = min(L, n) and
\* offset = n - c, the transform's input is 0 below offset and
\* samples[L - c + j] * window[offset + j] at offset + j for every j < c;
\* every index used is in range and compute returns bin_count().
C15_InputLayout ==
    result.op = "compute" =>
        LET L == Len(result.samples)
            n == fft_size(fft_)
            c == IF L < n THEN L ELSE n
            offset == n - c
        IN  /\ Len(fft_.input) = n
            /\ \A i \in 0 .. offset - 1 : fft_.input[i + 1] = Flt(0)
            /\ \A j \in 0 .. c - 1 :
                  fft_.input[offset + j + 1] =
                      FMul(Flt(result.samples[L - c + j + 1]), fft_.window_[offset + j + 1])
            /\ result.in_range
            /\ result.ret = bin_count(fft_)
            /\ Len(result.output) = bin_count(fft_)
\* A compute on more samples than fft_size whose first and whose first used
\* sample differ.
C15_Witness ==
    /\ result.op = "compute"
    /\ fft_size(fft_) = 4 /\ Len(result.samples) = 5
    /\ fft_.config_.window = "Hamming"
    /\ result.samples[1] # result.samples[2]
    /\ fft_.input[1] = FMul(Flt(result.samples[2]), fft_.window_[1])

\* round(q) for a fraction q >= 0, halves upwards.
RoundHalfUp(q) == (2 * q[1] + q[2]) \div (2 * q[2])

\* C16 (as stated): bin_to_frequency(i, sr) is i * sr / fft_size;
\* frequency_to_bin(f, sr) is clamp(round(f * fft_size / sr), 0,
\* bin_count - 1) for every f >= 0 and so below bin_count; and
\* frequency_to_bin(bin_to_frequency(i, sr), sr) = i for i < bin_count.
C16_Original ==
    /\ result.op = "bin_to_frequency" =>
          result.freq = Frac(result.arg[1] * result.arg[2][1],
                             fft_size(fft_) * result.arg[2][2])
    /\ result.op = "frequency_to_bin" =>
          LET f == result.arg[1]
              sr == result.arg[2]
              q == Frac(f[1] * fft_size(fft_) * sr[2], f[2] * sr[1])
          IN  /\ result.ret = Max(0, Min(RoundHalfUp(q), bin_count(fft_) - 1))
              /\ result.ret < bin_count(fft_)
              /\ \A i \in 0 .. bin_count(fft_) - 1 :
                    f = Frac(i * sr[1], fft_size(fft_) * sr[2]) => result.ret = i

\* Where the conversion of f * fft_size / sr + 0.5 to std::size_t is
\* defined, C16 holds.
C16_InRange ==
    (result.op = "frequency_to_bin" =>
        LET f == result.arg[1]
            sr == result.arg[2]
            q == Frac(f[1] * fft_size(fft_) * sr[2], f[2] * sr[1])
        IN  RoundHalfUp(q) < SizeMod => C16_Original)
    /\ (result.op # "frequency_to_bin" => C16_Original)

\* The level a silent bin is given in dB mode.
SilenceLevel(config) ==
    FDiv(FSub(FClamp(FMul(Flt(20), Flt(-10)), config.db_floor, config.db_ceiling),
              config.db_floor),
         FSub(config.db_ceiling, config.db_floor))

\* C17 (as stated): in dB mode with db_floor < db_ceiling, compute on
\* all-zero samples gives every bin (clamp(20 * log10(1e-10), db_floor,
\* db_ceiling) - db_floor) / (db_ceiling - db_floor), which is 0, and so
\* below 0.01, for db_floor = -80.
C17_Original ==
    (/\ result.op = "compute"
     /\ fft_.config_.use_magnitude_db
     /\ FLess(fft_.config_.db_floor, fft_.config_.db_ceiling)
     /\ AllZero(result.samples)) =>
        \A i \in DOMAIN result.output :
            /\ result.output[i] = SilenceLevel(fft_.config_)
            /\ fft_.config_.db_floor = Flt(-80) =>
                  (result.output[i] = Flt(0) /\ FLess(result.output[i], <<1, 100>>))

\* With window coefficients that are numbers (any window for fft_size >= 2,
\* the rectangular one for fft_size = 1) silence does give that level.
C17_FiniteWindow ==
    (\A i \in DOMAIN fft_.window_ : IsFinite(fft_.window_[i])) => C17_Original

\* C18: start() and stop() are idempotent. start() on a running capture and
\* stop() on a stopped one make no backend call and change nothing; a
\* successful start() leaves is_running() true, stop() leaves it false, a
\* start() that the backend refuses raises an error with is_running() false;
\* the destructor's stop() stops a running capture once and no other.
BackendCalls(St) == St.starts + St.stops
C18_StartStopIdempotent ==
    /\ (result.op = "start" /\ result.pre.audio.running_) =>
            /\ audio_ = result.pre.audio /\ stream_ = result.pre.stream
            /\ result.error = "none" /\ is_running(audio_)
    /\ (result.op = "stop" /\ ~result.pre.audio.running_) =>
            /\ audio_ = result.pre.audio /\ stream_ = result.pre.stream
    /\ (result.op = "start" /\ result.error = "none") => is_running(audio_)
    /\ (result.op = "start" /\ result.error # "none") =>
            /\ result.error = "runtime_error" /\ ~is_running(audio_)
            /\ ~result.pre.audio.running_
    /\ result.op = "stop" => ~is_running(audio_)
    /\ result.op = "~AudioCapture" =>
            /\ ~is_running(audio_) /\ stream_.state = "closed"
            /\ stream_.starts = result.pre.stream.starts
            /\ stream_.stops = result.pre.stream.stops
                                + (IF result.pre.audio.running_ THEN 1 ELSE 0)
    /\ result.op \in {"start", "stop", "~AudioCapture"} =>
            /\ write_pos_ = result.pre.write_pos /\ read_pos_ = result.pre.read_pos
            /\ audio_.frames_captured_ = result.pre.audio.frames_captured_
            /\ audio_.callback_count_ = result.pre.audio.callback_count_
            /\ audio_.overruns_ = result.pre.audio.overruns_
    /\ audio_.running_ <=> stream_.state = "active"
\* start() was called on a capture that a start had made running after an
\* earlier stop.
C18_Witness ==
    /\ result.op = "start" /\ result.pre.audio.running_
    /\ stream_.starts = 2 /\ stream_.stops = 1
    /\ BackendCalls(stream_) = BackendCalls(result.pre.stream)

\* C19: stop() is a hard stop. Once stop() has returned, and until the next
\* start(), no audio callback executes; and whenever a callback is executing,
\* is_running() is true.
C19_Original ==
    /\ (audio_.pc = "idle" /\ ~is_running(audio_)) =>
            ~stream_.in_callback /\ stream_.state # "active"
    /\ stream_.in_callback => is_running(audio_)
\* C19, the half that holds: between the return of stop() and the next
\* start() the stream is stopped and no callback is in progress.
C19_QuietAfterStop ==
    (audio_.pc = "idle" /\ ~is_running(audio_)) =>
        ~stream_.in_callback /\ stream_.state # "active"

\* C20: a callback with a batch of n samples adds 1 to callback_count and n to
\* frames_captured, pushes the longest prefix of the batch that fits, and adds
\* to overruns one for the backend's input-overflow flag and one for a batch
\* not wholly accepted; whenever a sample was dropped overruns > 0, and
\* frames_captured is the samples accepted plus the samples dropped.
C20_CallbackAccounting ==
    /\ result.op = "process_audio" =>
         LET n == Len(result.samples)
             before == result.pre.audio
             written == result.ret
         IN  /\ audio_.callback_count_ = before.callback_count_ + 1
             /\ audio_.frames_captured_ = before.frames_captured_ + n
             /\ written = Min(n, result.pre.free)
             /\ write_pos_ = UAdd(result.pre.write_pos, written)
             /\ read_pos_ = result.pre.read_pos
             /\ Len(pushed) = result.pre.pushed + written
             /\ SubSeq(pushed, result.pre.pushed + 1, Len(pushed))
                    = SubSeq(result.samples, 1, written)
             /\ audio_.overruns_ = before.overruns_
                                    + (IF result.arg[1] THEN 1 ELSE 0)
                                    + (IF written < n THEN 1 ELSE 0)
             /\ stream_.dropped = result.pre.stream.dropped + (n - written)
    /\ stream_.dropped > 0 => audio_.overruns_ > 0
    /\ audio_.frames_captured_ = Len(pushed) + stream_.dropped
\* A callback whose batch fitted only in part, with the overflow flag clear.
C20_Witness ==
    /\ result.op = "process_audio" /\ ~result.arg[1]
    /\ 0 < result.ret /\ result.ret < Len(result.samples)
    /\ audio_.overruns_ = result.pre.audio.overruns_ + 1

\* ---------------------------------------------------------- PortAudioGuard
\* The guards whose constructor has returned normally and whose destructor
\* has not begun.
LiveGuards == {t \in GuardThreads : guard_.th[t].pc = "held"}

\* C21 (as stated): while some guard is constructed and not destroyed the
\* library is initialised; the Pa_Initialize calls that succeeded and the
\* Pa_Terminate calls alternate, Pa_Initialize first; ref_count_ is never
\* negative.
C21_Original ==
    /\ LiveGuards # {} => guard_.initialized
    /\ guard_.inits - guard_.terms \in {0, 1}
    /\ guard_.ref_count_ >= 0

\* What holds in every interleaving: ref_count_ is never negative.
C21_CountNotNegative == guard_.ref_count_ >= 0

\* C22: ref_count_ is the number of guards that are live or inside their
\* constructor between the fetch_add and, on failure, the fetch_sub: a
\* constructor that threw has taken back what it added, and with no guard
\* live and no constructor running the count is 0, so that the next
\* constructor calls Pa_Initialize again.
Counted == {t \in GuardThreads : guard_.th[t].pc \in {"initialize", "undo", "held"}}
C22_FailureRestoresCount == guard_.ref_count_ = Cardinality(Counted)
\* A thread whose constructor threw has constructed a guard since, by a
\* Pa_Initialize of its own.
C22_Witness ==
    \E t \in GuardThreads :
        /\ guard_.th[t].failed > 0 /\ guard_.th[t].pc = "held"
        /\ guard_.initialized /\ guard_.ref_count_ = 1 /\ guard_.inits = 1

\* ------------------------------------------- RingBuffer, producer and consumer
\* C23: between any two atomic loads and stores of a producer (try_push,
\* single and bulk) and a consumer (try_pop, single and bulk, peek, discard,
\* clear) write_pos_ >= read_pos_ and write_pos_ - read_pos_ <= capacity_;
\* when neither thread is inside a call size() + available() == capacity().
C23_RingInvariant ==
    ctor = "constructed" =>
        /\ write_pos_ >= read_pos_
        /\ write_pos_ - read_pos_ <= capacity_
        /\ (prod.pc = "idle" /\ cons.pc = "idle") => size + available = capacity_
\* The consumer is about to store the write position it loaded for clear(),
\* the producer has published a sample since and is about to publish the
\* next one.
C23_Witness ==
    /\ cons.pc = "clear_store" /\ prod.pc = "push_store"
    /\ cons.w < write_pos_ /\ read_pos_ > 0

\* C24 (as stated, for try_pop(T&)): try_pop fails only on a buffer whose
\* occupancy (write_pos_ - read_pos_) mod 2^W is 0, also after write_pos_ has
\* wrapped past zero; a try_pop that failed has changed nothing, so the
\* occupancy after it is the one it found.
C24_Original == (last.op = "try_pop" /\ ~last.ok) => size = 0

\* The values of a sequence grow from each element to the next.
Increasing(seq) == \A i \in 1 .. Len(seq) - 1 : seq[i] < seq[i + 1]

\* C25 (as stated): with push_overwrite running against try_pop and discard,
\* read_pos_ never moves backwards, the values popped are in push order with
\* none returned twice, and write_pos_ - read_pos_ <= capacity_ whenever the
\* producer is not inside push_overwrite.
C25_Original ==
    /\ [][read_pos_' >= read_pos_]_vars
    /\ [](Increasing(popped))
    /\ []((ctor = "constructed" /\ prod.pc = "idle") => size <= capacity_)

\* ------------------------------------- update() against the audio thread
\* An update() that was not starved has returned and no other has begun.
\* result.arg is <<available, the write position size() loaded, the read and
\* write positions peek loaded, the write position at the return>>.
Analysed == result.op = "update" /\ ~result.starved /\ cons.pc = "idle"

\* C28: the window update() analysed is the read_count samples at the
\* positions from the read position peek loaded, the final discard has
\* advanced read_pos_ by exactly read_count from there, and every sample
\* pushed and not yet consumed, those pushed during the update included, is
\* in the ring in push order.
C28_ConsumesAnalysed ==
    /\ audio_.state = "constructed" =>
          /\ write_pos_ = Len(pushed)
          /\ \A i \in read_pos_ + 1 .. write_pos_ : buffer_[Slot(i - 1)] = pushed[i]
    /\ Analysed =>
          /\ result.samples = SubSeq(pushed, result.arg[3] + 1, result.arg[3] + result.ret)
          /\ read_pos_ = result.arg[3] + result.ret
\* The callback published samples between peek's load of write_pos_ and the
\* return of update(), and they are in the ring.
C28_Witness ==
    /\ Analysed /\ result.ret = fft_size(fft_)
    /\ result.arg[5] > result.arg[4] /\ size = MaxBatch

\* C29 (as stated): when update() found more than fft_size samples, the
\* window it analysed is the fft_size samples pushed last among those in the
\* ring when peek loaded write_pos_.
C29_Original ==
    (Analysed /\ result.arg[1] > fft_size(fft_)) =>
        result.samples = SubSeq(pushed, result.arg[4] - fft_size(fft_) + 1, result.arg[4])
\* With no sample published between the load of write_pos_ by size() and
\* the one by peek, the window is the most recent one.
C29_NoPushBetween ==
    (Analysed /\ result.arg[1] > fft_size(fft_) /\ result.arg[2] = result.arg[4]) =>
        result.samples = SubSeq(pushed, result.arg[4] - fft_size(fft_) + 1, result.arg[4])

C30_WitnessStarved ==
    /\ result.op = "update" /\ result.starved /\ result.changes > 0
    /\ Len(result.magnitudes) # MaxBands

\* -------------------------------------------------------- band mapping
\* The ranges are well formed for a transform of n_bins bins.
WellFormed(bands, n_bins) ==
    \A b \in DOMAIN bands :
        /\ 0 <= bands[b][1] /\ bands[b][1] <= n_bins - 1
        /\ bands[b][1] < bands[b][2] /\ bands[b][2] <= n_bins

\* C31: compute_log_bands returns num_bars pairs, and whatever bins the
\* casts of the two band frequencies gave, every pair has
\* 0 <= bin_lo <= bin_count - 1 and bin_lo < bin_hi <= bin_count, for every
\* bin_count >= 1.
C31_LogBands ==
    result.op = "compute_log_bands" =>
        /\ Len(result.output) = result.arg[2]
        /\ WellFormed(result.output, result.arg[1])
\* A band whose lower frequency mapped past the last bin and whose upper
\* frequency mapped to bin 0: bin_lo is clamped and bin_hi raised above it.
C31_Witness ==
    /\ result.op = "compute_log_bands" /\ result.arg[1] = MaxBins
    /\ \E b \in DOMAIN result.samples :
          /\ result.samples[b] = <<SizeMod - 1, 0>>
          /\ result.output[b] = <<MaxBins - 1, MaxBins>>

\* C32 (as stated): once the analyzer is constructed, and after every
\* set_config, the band mapping, logarithmic or linear, consists of pairwise
\* distinct non-empty ranges with bin_lo < bin_hi <= bin_count, and the
\* linear band i is [i * bpb, min((i + 1) * bpb, bin_count)) with
\* bpb = bin_count / num_bands.
C32_Original ==
    fft_.state = "constructed" =>
        /\ \A b \in DOMAIN band_bins_ :
              band_bins_[b][1] < band_bins_[b][2] /\ band_bins_[b][2] <= bin_count(fft_)
        /\ \A b, c \in DOMAIN band_bins_ : b # c => band_bins_[b] # band_bins_[c]
        /\ ~analyzer_config_.logarithmic_frequency =>
              LET bpb == bin_count(fft_) \div analyzer_config_.num_bands
              IN  \A b \in DOMAIN band_bins_ :
                      band_bins_[b] = <<(b - 1) * bpb, Min(b * bpb, bin_count(fft_))>>
\* What holds of every mapping: ranges within the bins, possibly empty, and
\* the linear formula.
C32_WithinBins ==
    fft_.state = "constructed" =>
        /\ \A b \in DOMAIN band_bins_ :
              band_bins_[b][1] <= band_bins_[b][2] /\ band_bins_[b][2] <= bin_count(fft_)
        /\ ~analyzer_config_.logarithmic_frequency =>
              LET bpb == bin_count(fft_) \div analyzer_config_.num_bands
              IN  \A b \in DOMAIN band_bins_ :
                      band_bins_[b] = <<(b - 1) * bpb, Min(b * bpb, bin_count(fft_))>>

\* ---------------------------------------------- FFTProcessor::set_config
\* The call reallocated: the processor has a plan and an input buffer that
\* no compute has written.
Reallocated == fft_.plan /\ fft_.input = [i \in 1 .. fft_size(fft_) |-> NaN]

\* C33 (as stated): in every state reached by constructing an FFTProcessor
\* and applying set_config calls, fft_size is a power of two, the window
\* vector has fft_size entries and holds the coefficients of the configured
\* window function, and a set_config reallocated the buffers and the plan
\* exactly when fft_size changed.
C33_Original ==
    fft_.state = "constructed" =>
        /\ IsPow2(fft_size(fft_))
        /\ Len(fft_.window_) = fft_size(fft_)
        /\ fft_.window_ = compute_window(fft_.config_)
        /\ (/\ result.op = "fft_set_config"
            /\ \E i \in DOMAIN result.pre.input : result.pre.input[i] # NaN) =>
              (Reallocated <=> fft_size(fft_) # result.pre.config_.fft_size)
\* After a set_config that did not throw, the window vector has fft_size
\* entries holding the configured window's coefficients, and the buffers
\* were reallocated exactly when fft_size changed.
C33_UnlessThrown ==
    (fft_.state = "constructed" /\ result.op = "fft_set_config"
        /\ result.error = "none" /\ fft_.plan) =>
        /\ Len(fft_.window_) = fft_size(fft_)
        /\ fft_.window_ = compute_window(fft_.config_)
        /\ (\E i \in DOMAIN result.pre.input : result.pre.input[i] # NaN) =>
              (Reallocated <=> fft_size(fft_) # result.pre.config_.fft_size)

\* ------------------------------------------------------------ output range
InUnit(x) == FLeq(Flt(0), x) /\ FLeq(x, Flt(1))
AllInUnit(v) == \A i \in DOMAIN v : InUnit(v[i])

\* C34 (as stated): in dB mode with db_floor < db_ceiling and
\* smoothing_factor and peak_decay_rate in [0, 1], every bin compute writes
\* lies in [0, 1], and so does every entry of smoothed_magnitudes_ and
\* peak_values_ and of the magnitudes and peaks update() returns.
C34_Original ==
    (/\ fft_.state = "constructed"
     /\ fft_.config_.use_magnitude_db
     /\ FLess(fft_.config_.db_floor, fft_.config_.db_ceiling)
     /\ InUnit(analyzer_config_.smoothing_factor)
     /\ InUnit(analyzer_config_.peak_decay_rate)) =>
        /\ AllInUnit(magnitude_buffer_)
        /\ AllInUnit(smoothed_magnitudes_) /\ AllInUnit(peak_values_)
        /\ result.op = "update" =>
              AllInUnit(result.magnitudes) /\ AllInUnit(result.peaks)

\* With window coefficients that are numbers the outputs are in [0, 1].
C34_FiniteWindow ==
    (\A i \in DOMAIN fft_.window_ : IsFinite(fft_.window_[i])) => C34_Original

\* ------------------------------------------------------------ statistics
\* a <= b on counters and on levels.
CounterLeq(a, b) == \A k \in 1 .. 3 : a[k] <= b[k]
SnapshotLeq(a, b) == CounterLeq(a, b) /\ FLeq(a[4], b[4])

\* C35: peak_amplitude_ never decreases and, once a callback has returned,
\* is the largest |sample| of all batches delivered so far (0 before the
\* first); every value a stats() call returns is one its counter held
\* between the call's entry and its return, and each of frames_captured,
\* overruns, callback_count and peak_amplitude is at least what the
\* snapshot before it showed, callbacks running meanwhile.
C35_RunningMaximum ==
    /\ [][FLeq(audio_.peak_amplitude_, audio_'.peak_amplitude_)]_vars
    /\ [](/\ FLeq(audio_.peak_amplitude_, stream_.delivered_peak)
          /\ prod.pc \notin {"cb_peak_load", "cb_cas"} =>
                audio_.peak_amplitude_ = stream_.delivered_peak
          /\ result.op = "stats" =>
                /\ SnapshotLeq(result.pre.previous, result.arg)
                /\ SnapshotLeq(result.pre.entry, result.arg)
                /\ SnapshotLeq(result.arg, result.pre.exit))
\* A second snapshot, taken across the end of a callback that met a full
\* ring and a quieter batch than the one before: it shows the new
\* callback_count with the frames_captured of the call's entry, and the
\* peak of the louder batch.
C35_Witness ==
    /\ result.op = "stats" /\ result.frame = 2
    /\ result.arg[3] > result.pre.entry[3] /\ result.arg[1] < result.pre.exit[1]
    /\ result.arg[4] = Flt(3) /\ result.pre.previous[4] = Flt(3)
    /\ stream_.dropped > 0

\* The statements process_audio has left to run, at most: one per sample
\* still to be written and one per statement after it.
Rank(th) ==
    LET n == Len(th.data)
    IN  CASE th.pc = "cb_peak_load" -> n + 9
          [] th.pc = "cb_cas" -> n + 8
          [] th.pc = "cb_push" -> n + 7
          [] th.pc = "cb_load_r" -> n + 6
          [] th.pc = "cb_write" -> (n - th.i) + 5
          [] th.pc = "cb_store" -> 4
          [] th.pc = "cb_overrun" -> 3
          [] th.pc = "cb_frames" -> 2
          [] th.pc = "cb_count" -> 1
          [] OTHER -> 0

\* C36: process_audio is wait-free. Every step that is not the consumer's
\* is the callback's, and every step the callback takes brings it
\* nearer to its return by a measure that starts at the batch length plus a
\* constant, the compare-exchange loop included, and a callback that has
\* been entered returns whatever the consumer does, or if it does nothing,
\* on a full ring too.
C36_WaitFree ==
    /\ [][stream_.in_callback /\ cons' = cons => Rank(prod') < Rank(prod)]_vars
    /\ [](Rank(prod) <= Len(prod.data) + 9)
    /\ (stream_.in_callback ~> ~stream_.in_callback)

\* A callback has found the ring full, with a consumer that never ran, and
\* has dropped its whole batch.
C36_Witness ==
    /\ prod.pc = "cb_overrun" /\ prod.ret = 0 /\ Len(prod.data) = 2
    /\ USub(write_pos_, read_pos_) = capacity_
    /\ cons = Idle /\ popped = <<>>
    /\ audio_.callback_count_ = 1

\* The slots of the unread range [read_pos_, write_pos_).
UnreadSlots == {Slot(UAdd(read_pos_, k)) : k \in 0 .. USub(write_pos_, read_pos_) - 1}

\* The slots the producer is about to write in the call it is in.
WriteSlots ==
    IF prod.pc = "push_write" THEN {Slot(prod.w)}
    ELSE IF prod.pc = "pspan_write"
    THEN {Slot(UAdd(prod.w, j)) : j \in prod.i .. prod.n - 1}
    ELSE {}

\* The positions the consumer is copying or has copied and not yet released.
ReadPositions ==
    IF cons.pc \in {"pop_read", "pop_store"} THEN {cons.r}
    ELSE IF cons.pc \in {"bulk_read", "bulk_store"} /\ cons.op # "discard"
    THEN {UAdd(cons.r, j) : j \in 0 .. cons.n - 1}
    ELSE {}

\* C37: no slot is read and written at once. The slots the producer writes
\* lie outside the unread range and are none of the slots the consumer is
\* copying or has not released, every slot the consumer is about to copy
\* holds the value pushed at its position, and every value it copies is
\* that value.
C37_NoSlotShared ==
    /\ [](ctor = "constructed" =>
            /\ WriteSlots \cap UnreadSlots = {}
            /\ \A p \in ReadPositions :
                  /\ Slot(p) \notin WriteSlots
                  /\ p < Len(pushed) /\ buffer_[Slot(p)] = pushed[p + 1])
    /\ [][/\ cons.pc = "pop_read" /\ cons' # cons => value' = pushed[cons.r + 1]
          /\ cons.pc = "bulk_read" /\ cons' # cons =>
                cons'.out[cons.i + 1] = pushed[UAdd(cons.r, cons.i) + 1]]_vars

\* The producer is writing the slot of position 2 in a ring of two slots
\* while the consumer copies position 1: the slot of position 0, now
\* released, is written again.
C37_Witness ==
    /\ capacity_ = 2 /\ prod.pc \in {"push_write", "pspan_write"}
    /\ Slot(0) \in WriteSlots /\ read_pos_ = 1 /\ write_pos_ = 2
    /\ cons.pc \in {"pop_read", "bulk_read"} /\ ReadPositions = {1}

\* Capture is running on a full ring whose capacity is below the quarter of
\* fft_size that update() asks for.
Stuck ==
    /\ SA_Idle /\ audio_.running_ /\ stream_.state = "active"
    /\ full /\ Starved(capacity_, fft_size(fft_))

\* C38, as stated: with capture running and the ring full, an update() that
\* is still to come takes the processing branch and consumes samples.
C38_Original ==
    (UpdateReady /\ audio_.running_ /\ stream_.state = "active" /\ full)
    ~> (result.op = "update" /\ ~result.starved /\ ~full)

\* What the code does on a ring smaller than fft_size / 4: once full it
\* stays full, every callback after that drops its whole batch and records
\* an overrun, and every update() is starved.
C38_StuckForever ==
    [][Stuck =>
          /\ Stuck'
          /\ read_pos_' = read_pos_ /\ write_pos_' = write_pos_
          /\ (result'.op = "update" => result'.starved)
          /\ (audio_'.callback_count_ # audio_.callback_count_ =>
                  audio_'.overruns_ = (audio_.overruns_ + 1) % SizeMod)]_vars

\* Progress where the ring holds a quarter of fft_size: from a full ring the
\* next update() is not starved.
C38_ProgressWhenRoom ==
    (UpdateReady /\ audio_.running_ /\ stream_.state = "active" /\ full
        /\ ~Starved(capacity_, fft_size(fft_)))
    ~> (result.op = "update" /\ ~result.starved /\ ~full)

\* The previous update() was not starved and the one now running has loaded
\* the read position its peek copies from.
PeekAfterAnalysed ==
    /\ result.op = "update" /\ ~result.starved
    /\ cons.pc \in {"upd_peek_w", "upd_peek_read", "upd_analyse"}

\* C39: no sample is analysed twice. A non-starved update() returns with
\* read_pos_ past the last sample it peeked, the peek of the next update()
\* starts at or after that position, so the windows of two updates share no
\* position, and an update() during which nothing was published returns
\* with the ring empty.
C39_AnalysedOnce ==
    /\ Analysed =>
          /\ read_pos_ >= result.arg[3] + result.ret
          /\ (result.arg[5] = result.arg[2] => read_pos_ = result.arg[5])
    /\ PeekAfterAnalysed => cons.v >= result.arg[3] + result.ret

\* A second update() is about to analyse a full window that starts where
\* the full window of the first one ended.
C39_Witness ==
    /\ PeekAfterAnalysed /\ cons.pc = "upd_analyse"
    /\ result.ret = fft_size(fft_) /\ cons.n = fft_size(fft_)
    /\ cons.v = result.arg[3] + result.ret

\* An update() during which nothing was published has returned with the
\* ring empty, its window consumed.
C39_WitnessEmpty ==
    /\ Analysed /\ result.ret = fft_size(fft_)
    /\ result.arg[5] = result.arg[2] /\ read_pos_ = write_pos_

\* C40 (as stated): in every SpectrumData update() returns, each band's
\* peak is at least its magnitude.
C40_Original ==
    (result.op = "update" /\ result.error = "none") =>
        \A b \in DOMAIN result.magnitudes :
            FLeq(result.magnitudes[b], result.peaks[b])

\* With peak_decay_rate = 1 the peak is never lowered, and it is at least
\* the magnitude in every SpectrumData.
C40_NoDecay ==
    (result.op = "update" /\ result.error = "none"
        /\ analyzer_config_.peak_decay_rate = Flt(1)) =>
        \A b \in DOMAIN result.magnitudes :
            FLeq(result.magnitudes[b], result.peaks[b])

====
